---------------------------- MODULE Spec2Model ----------------------------
(***************************************************************************)
(* A model of the djstation transition engine (src/advanced_mixer.py,      *)
(* src/music_extender.py, src/audio_analyzer.py) and of the API key check  *)
(* of its web service (src/backend/auth.py).                               *)
(*                                                                         *)
(* Conventions                                                             *)
(*   - A time is an integer number of ticks; one second is TimeDen ticks,  *)
(*     TimeDen == SubTicks * sample_rate, so a tick is 1/SubTicks of a     *)
(*     sample period and int(t * sample_rate) truncates.                   *)
(*   - A sample is an exact rational <<num, den>> (den > 0, lowest terms); *)
(*     float rounding is not modelled.                                     *)
(*   - A stereo buffer (numpy shape (2, n)) is a sequence of n frames, a   *)
(*     frame being <<left, right>>.                                        *)
(*   - A call that raises returns a record with err = TRUE.                *)
(*   - In the specifications of whole jobs (extend_track, mix_playlist) a  *)
(*     buffer is stood for by the track it was decoded from, its length in *)
(*     samples and the numbers of splices and normalizations it went       *)
(*     through, and pc and the job's arguments and locals are functions of *)
(*     the job.                                                            *)
(***************************************************************************)
EXTENDS Integers, Sequences, FiniteSets, TLC

VARIABLES
    pc,                 \* position of the call under study
    audio1, audio2,     \* the two buffers handed to the mixer
    mixout_point, mixin_point, crossfade_duration, style,
    mixed,              \* what create_crossfade returned
    fade_window,        \* create_crossfade's locals after line 180
    audio, ndim,        \* match_tempo's buffer and its number of dimensions
    original_bpm, target_bpm,
    stretch_len,        \* the length of what pyrb.time_stretch returned
    tempo_ret,          \* what match_tempo returned
    analysis1, analysis2,   \* the analyses handed to the selector
    transition_bars,
    beats1, beats2, transition_point,   \* align_beats' arguments
    select_ret,         \* what find_optimal_transition_point returned
    align_ret,          \* what align_beats returned
    align_ret2,         \* what align_beats returned for its own result
    op,                 \* the entry point each job runs: "extend" or "mix"
    input_path, output_path, target_duration_str,   \* extend_track's arguments
    track_paths,        \* mix_playlist's argument
    fs,                 \* the file system, shared by the jobs: path -> content
    loaded, written,    \* the paths each job has read, has written
    err,                \* the exception each job raised, or "none"
    target_duration,    \* extend_track's local, after line 64
    analysis,           \* extend_track's local, after line 73
    required_loops,     \* extend_track's local, after line 102
    full_mix,           \* extend_track's local, after line 190
    iteration,          \* the iterations of the loop of line 192 begun so far
    camelot1, camelot2, \* are_keys_compatible's arguments
    keys_ret,           \* what are_keys_compatible returned
    norm_ret,           \* what normalize_audio returned
    api_key,            \* get_api_key's argument, of the latest request
    today,              \* the calendar day time.strftime("%Y-%m-%d") gives
    usage_tracker,      \* auth.usage_tracker: key -> [date, count]
    status,             \* the HTTP status of the latest request
    admitted            \* requests get_api_key let through today, per key

bufferVars == <<audio1, audio2>>

crossfadeVars == <<mixout_point, mixin_point, crossfade_duration, style,
                   mixed, fade_window>>

tempoVars == <<audio, ndim, original_bpm, target_bpm, stretch_len, tempo_ret>>

beatVars == <<analysis1, analysis2, transition_bars, beats1, beats2,
              transition_point, select_ret, align_ret, align_ret2>>

jobArgs == <<op, input_path, output_path, target_duration_str, track_paths>>

jobLocals == <<loaded, written, err, target_duration, analysis, required_loops,
               full_mix, iteration>>

jobVars == <<jobArgs, fs, jobLocals>>

keyVars == <<camelot1, camelot2, keys_ret>>

normVars == <<norm_ret>>

authVars == <<api_key, today, usage_tracker, status, admitted>>

(* the state of the operations specified after the jobs *)
otherVars == <<keyVars, normVars, authVars>>

vars == <<pc, bufferVars, crossfadeVars, tempoVars, beatVars, jobVars,
          otherVars>>

---------------------------------------------------------------------------
(* Bounds of the model *)

MaxLen == 4
MaxPoint == 9
MaxDur == 8
SubTicks == 2
BpmDen == 4
BaseBpm == 480
MaxBars == 2

MaxStr == 3
MaxTracks == 2
MaxLoops == 3
MaxCrest == 3
MaxDay == 2
MaxCount == 52

(* "if intro2['end'] > 5", find_optimal_transition_point *)
IntroMinSeconds == 5

(* parse_duration *)
SecondsPerMinute == 60
SecondsPerHour == 3600

(* extend_track(..., transition_bars: int = 16) *)
DefaultTransitionBars == 16

(* AdvancedMixer.__init__ *)
sample_rate == 44100

TimeDen == SubTicks * sample_rate

---------------------------------------------------------------------------
(* Exact arithmetic on samples and gains *)

Abs(x) == IF x < 0 THEN -x ELSE x

Min(a, b) == IF a <= b THEN a ELSE b

Max(a, b) == IF a >= b THEN a ELSE b

RECURSIVE GCD(_, _)
GCD(a, b) == IF b = 0 THEN a ELSE GCD(b, a % b)

Rat(n, d) ==
    LET g == GCD(Abs(n), d)
    IN  IF n = 0 THEN <<0, 1>> ELSE <<n \div g, d \div g>>

RAdd(x, y) == Rat(x[1] * y[2] + y[1] * x[2], x[2] * y[2])

RMul(x, y) == Rat(x[1] * y[1], x[2] * y[2])

RDiv(x, y) ==
    IF y[1] < 0 THEN Rat(-(x[1] * y[2]), x[2] * (-y[1]))
    ELSE Rat(x[1] * y[2], x[2] * y[1])

RLt(x, y) == x[1] * y[2] < y[1] * x[2]

RAbs(x) == <<Abs(x[1]), x[2]>>

RMax(x, y) == IF RLt(x, y) THEN y ELSE x

FScale(f, g) == <<RMul(f[1], g), RMul(f[2], g)>>

FAdd(f, h) == <<RAdd(f[1], h[1]), RAdd(f[2], h[2])>>

ZeroFrame == <<Rat(0, 1), Rat(0, 1)>>

(* int(seconds * self.sample_rate), for seconds >= 0 *)
ToSamples(t) == (t * sample_rate) \div TimeDen

---------------------------------------------------------------------------
(* numpy primitives, for non-negative indices *)

Raise == [ok |-> FALSE, v |-> <<>>]

Ok(v) == [ok |-> TRUE, v |-> v]

(* s[a:b] *)
PySlice(s, a, b) ==
    LET lo == Min(a, Len(s))
        hi == Min(b, Len(s))
    IN  IF hi <= lo THEN <<>> ELSE SubSeq(s, lo + 1, hi)

(* np.linspace(start, stop, num), start and stop integers *)
Linspace(start, stop, num) ==
    IF num < 0 THEN Raise
    ELSE Ok([k \in 1..num |->
                IF num = 1 THEN Rat(start, 1)
                ELSE Rat(start * (num - 1) + (k - 1) * (stop - start), num - 1)])

(* xs * curve with numpy broadcasting of two 1-D operands *)
BMul(xs, curve) ==
    IF Len(xs) = Len(curve)
    THEN Ok([k \in 1..Len(xs) |-> FScale(xs[k], curve[k])])
    ELSE IF Len(curve) = 1
    THEN Ok([k \in 1..Len(xs) |-> FScale(xs[k], curve[1])])
    ELSE IF Len(xs) = 1
    THEN Ok([k \in 1..Len(curve) |-> FScale(xs[1], curve[k])])
    ELSE Raise

(* the source operand of an in-place operation on m[a:b]: it must have the
   slice's length, or length 1 *)
Fits(m, a, b, src) ==
    LET n == Len(PySlice(m, a, b))
    IN  Len(src) = n \/ Len(src) = 1

At(m, a, b, src, i) ==
    LET n == Len(PySlice(m, a, b))
    IN  IF Len(src) = n THEN src[i - Min(a, Len(m))] ELSE src[1]

InSlice(m, a, b, i) ==
    LET lo == Min(a, Len(m))
    IN  i > lo /\ i <= lo + Len(PySlice(m, a, b))

(* m[ch, a:b] *= curve, both channels *)
IMulSlice(m, a, b, curve) ==
    IF ~Fits(m, a, b, curve) THEN Raise
    ELSE Ok([i \in 1..Len(m) |->
                IF InSlice(m, a, b, i)
                THEN FScale(m[i], At(m, a, b, curve, i)) ELSE m[i]])

(* m[ch, a:b] += src, both channels *)
IAddSlice(m, a, b, src) ==
    IF ~Fits(m, a, b, src) THEN Raise
    ELSE Ok([i \in 1..Len(m) |->
                IF InSlice(m, a, b, i)
                THEN FAdd(m[i], At(m, a, b, src, i)) ELSE m[i]])

(* m[:, a:b] = src *)
ISetSlice(m, a, b, src) ==
    IF ~Fits(m, a, b, src) THEN Raise
    ELSE Ok([i \in 1..Len(m) |->
                IF InSlice(m, a, b, i) THEN At(m, a, b, src, i) ELSE m[i]])

---------------------------------------------------------------------------
(* AdvancedMixer.create_crossfade *)

(* total_length without the overlap: track 2 appended after track 1 *)
TotalLengthAppended(len1, len2, mixout_sample, mixin_sample) ==
    len1 + (len2 - mixin_sample)

(* total_length, lines 166-169 *)
TotalLength(len1, len2, mixout_sample, mixin_sample) ==
    Max(len1, mixout_sample + (len2 - mixin_sample))

(* fade_end, line 179 *)
FadeEnd(len1, fade_start, fade_samples) ==
    Min(fade_start + fade_samples, len1)

(* the fade window, lines 158-160 and 177-180 *)
CrossfadeWindow(a1, mixout, duration) ==
    LET mixout_sample == ToSamples(mixout)
        fade_samples == ToSamples(duration)
        fade_start == mixout_sample
        fade_end == FadeEnd(Len(a1), fade_start, fade_samples)
    IN  [fade_samples |-> fade_samples, fade_start |-> fade_start,
         fade_end |-> fade_end, actual_fade_samples |-> fade_end - fade_start]

(* the curve multiplying track 1 in the window, lines 184 and 189 *)
FadeOutCurve(n) == Linspace(1, 0, n)

(* a fade-in that rises quadratically instead of linearly *)
FadeInQuadratic(n) ==
    IF n < 0 THEN Raise
    ELSE Ok([k \in 1..n |->
                IF n = 1 THEN Rat(0, 1)
                ELSE Rat((k - 1) * (k - 1), (n - 1) * (n - 1))])

(* the curve multiplying track 2 in the window, lines 197-199 *)
FadeInCurve(n) == Linspace(0, 1, n)

(* "Track2 remainder": the assignment of lines 201-211 (and 239-249, 268-277) *)
CopyRemaining(m, a2, total_length, remaining_start, remaining_audio2_start) ==
    LET remaining_length == Min(Len(a2) - remaining_audio2_start,
                                total_length - remaining_start)
    IN  IF remaining_length > 0
        THEN ISetSlice(m, remaining_start, remaining_start + remaining_length,
                       PySlice(a2, remaining_audio2_start,
                               remaining_audio2_start + remaining_length))
        ELSE Ok(m)

(* style == 'classic', lines 182-211 *)
ClassicBranch(m0, a2, total_length, fade_start, fade_end, mixin_sample) ==
    LET actual_fade_samples == fade_end - fade_start
        fade_out_curve == FadeOutCurve(actual_fade_samples)
        fade_in_curve == FadeInCurve(actual_fade_samples)
    IN  IF ~fade_out_curve.ok \/ ~fade_in_curve.ok THEN Raise
        ELSE
        LET m1 == IMulSlice(m0, fade_start, fade_end, fade_out_curve.v)
            track2_fade_start == mixin_sample
            track2_fade_end == Min(track2_fade_start + actual_fade_samples, Len(a2))
            track2_fade_samples == track2_fade_end - track2_fade_start
            fade_in_actual == FadeInCurve(track2_fade_samples)
        IN  IF ~m1.ok \/ ~fade_in_actual.ok THEN Raise
            ELSE
            LET prod == BMul(PySlice(a2, track2_fade_start, track2_fade_end),
                             fade_in_actual.v)
            IN  IF ~prod.ok THEN Raise
                ELSE
                LET m2 == IAddSlice(m1.v, fade_start,
                                    fade_start + track2_fade_samples, prod.v)
                IN  IF ~m2.ok THEN Raise
                    ELSE CopyRemaining(m2.v, a2, total_length,
                                       fade_start + track2_fade_samples,
                                       track2_fade_end)

(* the first ramp over the larger half of the window *)
BassSwapLongFirstRamp(m0, a2, total_length, fade_start, fade_end, mixin_sample) ==
    LET actual_fade_samples == fade_end - fade_start
        fade_out_curve == FadeOutCurve(actual_fade_samples)
    IN  IF ~fade_out_curve.ok THEN Raise
        ELSE
        LET m1 == IMulSlice(m0, fade_start, fade_end, fade_out_curve.v)
            bass_fade_samples == (actual_fade_samples + 1) \div 2
            track2_fade_start == mixin_sample
            bass_fade_in == Linspace(0, 1, bass_fade_samples)
        IN  IF ~m1.ok \/ ~bass_fade_in.ok THEN Raise
            ELSE
            LET prod1 == BMul(PySlice(a2, track2_fade_start,
                                      track2_fade_start + bass_fade_samples),
                              bass_fade_in.v)
            IN  IF ~prod1.ok THEN Raise
                ELSE
                LET m2 == IAddSlice(m1.v, fade_start,
                                    fade_start + bass_fade_samples, prod1.v)
                    remaining_fade_samples == actual_fade_samples - bass_fade_samples
                    remaining_fade_in == Linspace(0, 1, remaining_fade_samples)
                IN  IF ~m2.ok \/ ~remaining_fade_in.ok THEN Raise
                    ELSE
                    LET prod2 == BMul(PySlice(a2,
                                          track2_fade_start + bass_fade_samples,
                                          track2_fade_start + actual_fade_samples),
                                      remaining_fade_in.v)
                    IN  IF ~prod2.ok THEN Raise
                        ELSE
                        LET m3 == IAddSlice(m2.v, fade_start + bass_fade_samples,
                                            fade_end, prod2.v)
                        IN  IF ~m3.ok THEN Raise
                            ELSE CopyRemaining(m3.v, a2, total_length, fade_end,
                                     track2_fade_start + actual_fade_samples)

(* style == 'bass_swap', lines 213-249 *)
BassSwapBranch(m0, a2, total_length, fade_start, fade_end, mixin_sample) ==
    LET actual_fade_samples == fade_end - fade_start
        fade_out_curve == FadeOutCurve(actual_fade_samples)
    IN  IF ~fade_out_curve.ok THEN Raise
        ELSE
        LET m1 == IMulSlice(m0, fade_start, fade_end, fade_out_curve.v)
            bass_fade_samples == actual_fade_samples \div 2
            track2_fade_start == mixin_sample
            bass_fade_in == Linspace(0, 1, bass_fade_samples)
        IN  IF ~m1.ok \/ ~bass_fade_in.ok THEN Raise
            ELSE
            LET prod1 == BMul(PySlice(a2, track2_fade_start,
                                      track2_fade_start + bass_fade_samples),
                              bass_fade_in.v)
            IN  IF ~prod1.ok THEN Raise
                ELSE
                LET m2 == IAddSlice(m1.v, fade_start,
                                    fade_start + bass_fade_samples, prod1.v)
                    remaining_fade_samples == actual_fade_samples - bass_fade_samples
                    remaining_fade_in == Linspace(0, 1, remaining_fade_samples)
                IN  IF ~m2.ok \/ ~remaining_fade_in.ok THEN Raise
                    ELSE
                    LET prod2 == BMul(PySlice(a2,
                                          track2_fade_start + bass_fade_samples,
                                          track2_fade_start + actual_fade_samples),
                                      remaining_fade_in.v)
                    IN  IF ~prod2.ok THEN Raise
                        ELSE
                        LET m3 == IAddSlice(m2.v, fade_start + bass_fade_samples,
                                            fade_end, prod2.v)
                        IN  IF ~m3.ok THEN Raise
                            ELSE CopyRemaining(m3.v, a2, total_length, fade_end,
                                     track2_fade_start + actual_fade_samples)

(* the fallback dispatched to the bass swap instead of a copy of classic *)
FallbackAsBassSwap(m0, a2, total_length, fade_start, fade_end, mixin_sample) ==
    BassSwapBranch(m0, a2, total_length, fade_start, fade_end, mixin_sample)

(* any other style ("filter_sweep or other"), lines 251-277 *)
FallbackBranch(m0, a2, total_length, fade_start, fade_end, mixin_sample) ==
    LET actual_fade_samples == fade_end - fade_start
        fade_out_curve == Linspace(1, 0, actual_fade_samples)
        fade_in_curve == Linspace(0, 1, actual_fade_samples)
    IN  IF ~fade_out_curve.ok \/ ~fade_in_curve.ok THEN Raise
        ELSE
        LET m1 == IMulSlice(m0, fade_start, fade_end, fade_out_curve.v)
            track2_fade_start == mixin_sample
            track2_fade_end == Min(track2_fade_start + actual_fade_samples, Len(a2))
            track2_fade_samples == track2_fade_end - track2_fade_start
            fade_in_actual == Linspace(0, 1, track2_fade_samples)
        IN  IF ~m1.ok \/ ~fade_in_actual.ok THEN Raise
            ELSE
            LET prod == BMul(PySlice(a2, track2_fade_start, track2_fade_end),
                             fade_in_actual.v)
            IN  IF ~prod.ok THEN Raise
                ELSE
                LET m2 == IAddSlice(m1.v, fade_start,
                                    fade_start + track2_fade_samples, prod.v)
                    remaining_start == fade_start + track2_fade_samples
                    remaining_audio2_start == track2_fade_end
                    remaining_length ==
                        Min(Len(a2) - remaining_audio2_start,
                            total_length - remaining_start)
                IN  IF ~m2.ok THEN Raise
                    ELSE IF remaining_length > 0
                    THEN ISetSlice(m2.v, remaining_start,
                                   remaining_start + remaining_length,
                                   PySlice(a2, remaining_audio2_start,
                                       remaining_audio2_start + remaining_length))
                    ELSE m2

(* mixed taken as audio1 itself where audio1 has the total length, instead
   of a copy *)
create_crossfade_on_audio1(a1, a2, mixout, mixin, duration, st) ==
    LET mixout_sample == ToSamples(mixout)
        mixin_sample == ToSamples(mixin)
        total_length == TotalLength(Len(a1), Len(a2), mixout_sample, mixin_sample)
        zeros == [i \in 1..total_length |-> ZeroFrame]
        m0 == ISetSlice(zeros, 0, Len(a1), a1)
        w == CrossfadeWindow(a1, mixout, duration)
        fade_start == w.fade_start
        fade_end == w.fade_end
        r == IF ~m0.ok THEN Raise
             ELSE IF st = "classic"
             THEN ClassicBranch(m0.v, a2, total_length, fade_start, fade_end,
                                mixin_sample)
             ELSE IF st = "bass_swap"
             THEN BassSwapBranch(m0.v, a2, total_length, fade_start, fade_end,
                                 mixin_sample)
             ELSE FallbackBranch(m0.v, a2, total_length, fade_start, fade_end,
                                 mixin_sample)
    IN  [err |-> ~r.ok, mixed |-> r.v,
         audio1 |-> IF r.ok /\ total_length = Len(a1) THEN r.v ELSE a1,
         audio2 |-> a2,
         fresh |-> r.ok /\ total_length # Len(a1)]

(* lines 157-281.  The returned record is [err, mixed, audio1, audio2,
   fresh]: audio1 and audio2 are the arguments as the call leaves them, and
   fresh tells that the buffer returned is the one np.zeros allocated at
   line 172.  Line 175 copies audio1 into mixed, every in-place operation of
   the branches is on mixed, and audio2 is only read through slices. *)
create_crossfade(a1, a2, mixout, mixin, duration, st) ==
    LET mixout_sample == ToSamples(mixout)
        mixin_sample == ToSamples(mixin)
        total_length == TotalLength(Len(a1), Len(a2), mixout_sample, mixin_sample)
        zeros == [i \in 1..total_length |-> ZeroFrame]
        m0 == ISetSlice(zeros, 0, Len(a1), a1)
        w == CrossfadeWindow(a1, mixout, duration)
        fade_start == w.fade_start
        fade_end == w.fade_end
        r == IF ~m0.ok THEN Raise
             ELSE IF st = "classic"
             THEN ClassicBranch(m0.v, a2, total_length, fade_start, fade_end,
                                mixin_sample)
             ELSE IF st = "bass_swap"
             THEN BassSwapBranch(m0.v, a2, total_length, fade_start, fade_end,
                                 mixin_sample)
             ELSE FallbackBranch(m0.v, a2, total_length, fade_start, fade_end,
                                 mixin_sample)
    IN  [err |-> ~r.ok, mixed |-> r.v, audio1 |-> a1, audio2 |-> a2,
         fresh |-> r.ok]

---------------------------------------------------------------------------
(* AdvancedMixer.match_tempo *)

(* only equal tempos count as matched *)
TempoMatchedExact(orig, target) == orig = target

(* abs(original_bpm - target_bpm) < 0.5, line 52 *)
TempoMatched(orig, target) == 2 * Abs(orig - target) < BpmDen

(* The lengths pyrb.time_stretch may return for n samples at
   rate = target/orig: about n / rate, the rounding being the library's. *)
StretchLengths(n, orig, target) ==
    {(n * orig) \div target, (n * orig + target - 1) \div target}

(* pyrb.time_stretch(y, sr, rate) returning m samples: the library is a
   black box; its output is stood for by the nearest input sample. *)
time_stretch(y, m) ==
    [i \in 1..m |-> y[Min(Len(y), ((i - 1) * Len(y)) \div m + 1)]]

(* lines 40-68; m is the length the stretch primitive returns.  The result
   is [err, audio, same, calls]: same tells that the returned object is the
   argument itself, calls counts the calls of the primitive. *)
match_tempo(y, nd, orig, target, m) ==
    IF TempoMatched(orig, target)
    THEN [err |-> FALSE, audio |-> y, same |-> TRUE, calls |-> 0]
    ELSE IF nd = 2
    THEN \* stretched = np.zeros_like(audio); stretched[ch] = time_stretch(...)
         IF m = Len(y)
         THEN [err |-> FALSE, audio |-> time_stretch(y, m), same |-> FALSE,
               calls |-> 2]
         ELSE IF m = 1
         THEN [err |-> FALSE,
               audio |-> [i \in 1..Len(y) |-> time_stretch(y, m)[1]],
               same |-> FALSE, calls |-> 2]
         ELSE [err |-> TRUE, audio |-> <<>>, same |-> FALSE, calls |-> 1]
    ELSE [err |-> FALSE, audio |-> time_stretch(y, m), same |-> FALSE,
          calls |-> 1]

(* mix_playlist lines 378-380: tempo_ratio = reference_bpm /
   next_analysis['bpm'] and next_analysis['beats'] / tempo_ratio; a beat is
   an exact rational number of ticks *)
RescaledBeats(beats, reference_bpm, bpm) ==
    LET tempo_ratio == Rat(reference_bpm, bpm)
    IN  [i \in 1..Len(beats) |-> RDiv(beats[i], tempo_ratio)]

---------------------------------------------------------------------------
(* AdvancedMixer.find_optimal_transition_point and AdvancedMixer.align_beats *)

(* the index of the last smallest entry *)
ArgMinLast(xs) ==
    CHOOSE i \in 1..Len(xs) :
        /\ \A j \in 1..Len(xs) : xs[i] <= xs[j]
        /\ \A j \in (i + 1)..Len(xs) : xs[j] > xs[i]

(* np.argmin: the index of the first smallest entry *)
ArgMin(xs) ==
    CHOOSE i \in 1..Len(xs) :
        /\ \A j \in 1..Len(xs) : xs[i] <= xs[j]
        /\ \A j \in 1..(i - 1) : xs[j] > xs[i]

(* beats[np.argmin(np.abs(beats - point))], lines 90-91 and 130-131 *)
NearestBeat(beats, point) ==
    beats[ArgMin([i \in 1..Len(beats) |-> Abs(beats[i] - point)])]

(* an intro end of five seconds or more counts *)
find_transition_from_5(a1, a2, bars) ==
    LET outro1 == a1.segments.outro
        intro2 == a2.segments.intro
        mixin == IF intro2.end >= IntroMinSeconds * TimeDen THEN intro2.end ELSE 0
        mixout == IF Len(a1.beats) > 0 THEN NearestBeat(a1.beats, outro1.start)
                  ELSE outro1.start
    IN  <<mixout, mixin>>

(* lines 105-135 *)
find_optimal_transition_point(a1, a2, bars) ==
    LET outro1 == a1.segments.outro
        intro2 == a2.segments.intro
        mixin == IF intro2.end > IntroMinSeconds * TimeDen THEN intro2.end ELSE 0
        mixout == IF Len(a1.beats) > 0 THEN NearestBeat(a1.beats, outro1.start)
                  ELSE outro1.start
    IN  <<mixout, mixin>>

(* lines 70-103; first_beat2 is only printed *)
align_beats(a1, a2, b1, b2, point) ==
    LET aligned_point1 == IF Len(b1) > 0 THEN NearestBeat(b1, point) ELSE point
        first_beat2 == IF Len(b2) > 0 THEN b2[1] ELSE 0
    IN  [audio1 |-> a1, audio2 |-> a2, aligned_point1 |-> aligned_point1,
         first_beat2 |-> first_beat2]

---------------------------------------------------------------------------
(* MusicExtender.parse_duration.  A string is a sequence of characters. *)

Digits == {"1", "5"}

DigitValue(c) == CASE c = "1" -> 1 [] c = "5" -> 5

(* str.lower() on one character *)
Lower(c) == CASE c = "M" -> "m" [] c = "H" -> "h" [] c = "S" -> "s" [] OTHER -> c

LowerStr(cs) == [i \in 1..Len(cs) |-> Lower(cs[i])]

RECURSIVE DigitsValue(_)
DigitsValue(ds) ==
    IF ds = <<>> THEN 0
    ELSE 10 * DigitsValue(SubSeq(ds, 1, Len(ds) - 1)) + DigitValue(ds[Len(ds)])

RECURSIVE Pow10(_)
Pow10(k) == IF k = 0 THEN 1 ELSE 10 * Pow10(k - 1)

(* float(cs), for the characters of the model: digits with at most one
   point and at least one digit; anything else raises ValueError *)
float(cs) ==
    LET dots == {i \in 1..Len(cs) : cs[i] = "."}
        digs == {i \in 1..Len(cs) : cs[i] \in Digits}
    IN  IF digs = {} \/ Cardinality(dots) > 1
           \/ Cardinality(dots) + Cardinality(digs) # Len(cs)
        THEN Raise
        ELSE LET dot == IF dots = {} THEN Len(cs) ELSE CHOOSE i \in dots : TRUE
                 only == SelectSeq(cs, LAMBDA c : c \in Digits)
             IN  Ok(Rat(DigitsValue(only), Pow10(Len(cs) - dot)))

(* the suffix matched without duration_str.lower() *)
parse_duration_case_sensitive(duration_str) ==
    LET str == duration_str
        last == IF str = <<>> THEN "" ELSE str[Len(str)]
        head == IF str = <<>> THEN <<>> ELSE SubSeq(str, 1, Len(str) - 1)
        scaled(r, k) == IF r.ok THEN Ok(RMul(r.v, Rat(k, 1))) ELSE Raise
    IN  IF last = "m" THEN scaled(float(head), SecondsPerMinute)
        ELSE IF last = "h" THEN scaled(float(head), SecondsPerHour)
        ELSE IF last = "s" THEN float(head)
        ELSE float(str)

(* lines 21-34: the seconds, or ValueError *)
parse_duration(duration_str) ==
    LET str == LowerStr(duration_str)
        last == IF str = <<>> THEN "" ELSE str[Len(str)]
        head == IF str = <<>> THEN <<>> ELSE SubSeq(str, 1, Len(str) - 1)
        scaled(r, k) == IF r.ok THEN Ok(RMul(r.v, Rat(k, 1))) ELSE Raise
    IN  IF last = "m" THEN scaled(float(head), SecondsPerMinute)
        ELSE IF last = "h" THEN scaled(float(head), SecondsPerHour)
        ELSE IF last = "s" THEN float(head)
        ELSE float(str)

---------------------------------------------------------------------------
(* MusicExtender.extend_track: the loop plan, lines 87-102 *)

RSub(x, y) == Rat(x[1] * y[2] - y[1] * x[2], x[2] * y[2])

RLeq(x, y) == x[1] * y[2] <= y[1] * x[2]

(* int(np.ceil(x / y)), y > 0 *)
CeilDiv(x, y) == -((-(x[1] * y[2])) \div (x[2] * y[1]))

(* a time in ticks, as seconds *)
Seconds(t) == Rat(t, TimeDen)

(* the fallback loop taken as the whole track *)
ExtendPlanWholeLength(an, target) ==
    LET points == find_optimal_transition_point(an, an,
                                                DefaultTransitionBars)
        original_duration == Seconds(an.duration)
        mixout0 == Seconds(points[1])
        mixin0 == Seconds(points[2])
        fallback == RLeq(RSub(mixout0, mixin0), Rat(0, 1))
        loop_length_seconds ==
            IF fallback THEN original_duration
            ELSE RSub(mixout0, mixin0)
        mixout == IF fallback THEN RMul(original_duration, Rat(9, 10)) ELSE mixout0
        mixin == IF fallback THEN RMul(original_duration, Rat(1, 10)) ELSE mixin0
    IN  [mixout_point |-> mixout, mixin_point |-> mixin,
         loop_length_seconds |-> loop_length_seconds,
         required_loops |-> CeilDiv(RSub(target, mixin), loop_length_seconds)]

ExtendPlan(an, target) ==
    LET points == find_optimal_transition_point(an, an,
                                                DefaultTransitionBars)
        original_duration == Seconds(an.duration)
        mixout0 == Seconds(points[1])
        mixin0 == Seconds(points[2])
        fallback == RLeq(RSub(mixout0, mixin0), Rat(0, 1))
        loop_length_seconds ==
            IF fallback THEN RMul(original_duration, Rat(8, 10))
            ELSE RSub(mixout0, mixin0)
        mixout == IF fallback THEN RMul(original_duration, Rat(9, 10)) ELSE mixout0
        mixin == IF fallback THEN RMul(original_duration, Rat(1, 10)) ELSE mixin0
    IN  [mixout_point |-> mixout, mixin_point |-> mixin,
         loop_length_seconds |-> loop_length_seconds,
         required_loops |-> CeilDiv(RSub(target, mixin), loop_length_seconds)]

---------------------------------------------------------------------------
(* MusicExtender.extend_track: one iteration of the loop of lines 192-271,
   on the lengths of the buffers *)

(* int(x * sr), x >= 0 a rational number of seconds *)
SamplesOf(x) == (x[1] * sample_rate) \div x[2]

(* (60 / bpm) * 4 * transition_bars, bpm a rational; lines 159 and 404 *)
BarsDuration(bpm, bars) == Rat(SecondsPerMinute * 4 * bars * bpm[2], bpm[1])

(* the length of x[:, :k], x of n samples (k < 0 counts from the end) *)
LenTo(n, k) == IF k >= 0 THEN Min(k, n) ELSE Max(n + k, 0)

(* the length of x[:, k:] *)
LenFrom(n, k) == IF k >= 0 THEN Max(n - k, 0) ELSE Min(-k, n)

(* the shape of an operation that cannot be broadcast *)
NoShape == -1

(* the length of a * b or a + b under numpy broadcasting *)
BLen(a, b) ==
    IF a = NoShape \/ b = NoShape THEN NoShape
    ELSE IF a = b THEN a
    ELSE IF a = 1 THEN b
    ELSE IF b = 1 THEN a
    ELSE NoShape

(* lines 207-267: the length of full_mix after the iteration, or ValueError *)
ExtendSplice(full_len, audio_len, original_duration, mixout, mixin, crossfade_samples) ==
    LET time_from_end == RSub(original_duration, mixout)
        current_mixout_index == full_len - SamplesOf(time_from_end)
        next_mixin_index == SamplesOf(mixin)
        fade_start_idx == current_mixout_index
        fade_end_idx == fade_start_idx + crossfade_samples
        prev_keep == LenTo(full_len, fade_end_idx)
        next_start_idx == SamplesOf(mixin)
        next_audio == LenFrom(audio_len, next_start_idx)
        fade_out == crossfade_samples
        fade_in == crossfade_samples
        overlap_prev == LenFrom(prev_keep, -crossfade_samples)
        overlap_next == LenTo(next_audio, crossfade_samples)
        overlap_mixed == BLen(BLen(overlap_prev, fade_out),
                              BLen(overlap_next, fade_in))
        prev_body == LenTo(prev_keep, -crossfade_samples)
        next_body == LenFrom(next_audio, crossfade_samples)
    IN  IF overlap_mixed = NoShape THEN Raise
        ELSE Ok(prev_body + overlap_mixed + next_body)

(* full_mix.shape[1] / sr >= target_duration, line 270 *)
DurationReached(full_len, target) == RLeq(target, Rat(full_len, sample_rate))

---------------------------------------------------------------------------
(* Paths and file types, extend_track lines 42-47 *)

video_temp_audio == "temp_video_audio.wav"

temp_extended_audio == "temp_extended_audio.wav"

InputPaths == {"song.mp3", "b.mp3", "clip.mp4", "CLIP.MOV", "cover.png"}

OutputPaths == {"out1", "out2"}

Paths == InputPaths \cup OutputPaths \cup {video_temp_audio, temp_extended_audio}

(* the extension of lower_path *)
LowerExt(path) ==
    CASE path = "song.mp3" -> "mp3"
      [] path = "b.mp3" -> "mp3"
      [] path = "clip.mp4" -> "mp4"
      [] path = "CLIP.MOV" -> "mov"
      [] path = "cover.png" -> "png"

IsVideo(path) == LowerExt(path) \in {"mp4", "mov", "avi", "mkv", "webm"}

IsImage(path) == LowerExt(path) \in {"jpg", "jpeg", "png", "webp", "bmp"}

IsMedia(path) == IsVideo(path) \/ IsImage(path)

(* librosa.load decodes audio and the audio of a video; an image raises *)
Decodable(path) == path \in {video_temp_audio, temp_extended_audio} \/ ~IsImage(path)

---------------------------------------------------------------------------
(* AdvancedMixer.normalize_audio, lines 283-312 *)

(* 10 ** (target_db / 20) for target_db = -14.0: 0.1995..., to three
   decimal places *)
TargetLinear == Rat(200, 1000)

(* "normalized / max_val * 0.99" *)
Headroom == Rat(99, 100)

(* np.sqrt, on the squares of rationals *)
ISqrt(n) == CHOOSE r \in 0..n : r * r = n

sqrt(x) == <<ISqrt(x[1]), ISqrt(x[2])>>

(* np.sum(y ** 2) *)
RECURSIVE SumSquares(_)
SumSquares(y) ==
    IF y = <<>> THEN Rat(0, 1)
    ELSE RAdd(RAdd(RMul(y[1][1], y[1][1]), RMul(y[1][2], y[1][2])),
              SumSquares(Tail(y)))

(* np.mean(y ** 2), y not empty *)
MeanSquare(y) == RMul(SumSquares(y), Rat(1, 2 * Len(y)))

(* np.max(np.abs(y)), y not empty *)
RECURSIVE MaxAbs(_)
MaxAbs(y) ==
    IF y = <<>> THEN Rat(0, 1)
    ELSE RMax(RMax(RAbs(y[1][1]), RAbs(y[1][2])), MaxAbs(Tail(y)))

(* y * g, a new array *)
Scaled(y, g) == [i \in 1..Len(y) |-> FScale(y[i], g)]

(* the clipping guard of lines 306-307 left out *)
normalize_audio_unguarded(y) ==
    LET rms == sqrt(MeanSquare(y))
        gain_linear == RDiv(TargetLinear, rms)
        normalized == Scaled(y, gain_linear)
    IN  IF RLt(Rat(0, 1), rms)
        THEN [audio |-> normalized, input |-> y, same |-> FALSE]
        ELSE [audio |-> y, input |-> y, same |-> TRUE]

(* audio: what is returned; input: the argument after the call; same: the
   returned array is the argument itself *)
normalize_audio(y) ==
    LET rms == sqrt(MeanSquare(y))
        gain_linear == RDiv(TargetLinear, rms)
        normalized == Scaled(y, gain_linear)
        max_val == MaxAbs(normalized)
    IN  IF RLt(Rat(0, 1), rms)
        THEN [audio |-> IF RLt(Rat(1, 1), max_val)
                        THEN Scaled(Scaled(normalized,
                                           RDiv(Rat(1, 1), max_val)),
                                    Headroom)
                        ELSE normalized,
              input |-> y,
              same |-> FALSE]
        ELSE [audio |-> y, input |-> y, same |-> TRUE]

---------------------------------------------------------------------------
(* AudioAnalyzer.are_keys_compatible.  A Camelot code is a string, here a
   sequence of characters: the number 1..12 in decimal, then A or B. *)

DecimalDigits == <<"0", "1", "2", "3", "4", "5", "6", "7", "8", "9">>

(* int(cs), cs a non-empty sequence of decimal digits *)
RECURSIVE int(_)
int(cs) ==
    LET d == CHOOSE k \in 0..9 : DecimalDigits[k + 1] = cs[Len(cs)]
    IN  IF Len(cs) = 1 THEN d
        ELSE 10 * int(SubSeq(cs, 1, Len(cs) - 1)) + d

Unknown == <<"U", "n", "k", "n", "o", "w", "n">>

(* adjacency as a difference of 1, without the wrap from 12 to 1 *)
are_keys_compatible_no_wrap(key1, key2) ==
    IF key1 = Unknown \/ key2 = Unknown THEN <<FALSE, "Unknown key">>
    ELSE IF key1 = key2 THEN <<TRUE, "Perfect match (same key)">>
    ELSE
    LET num1 == int(SubSeq(key1, 1, Len(key1) - 1))
        letter1 == key1[Len(key1)]
        num2 == int(SubSeq(key2, 1, Len(key2) - 1))
        letter2 == key2[Len(key2)]
    IN  IF num1 = num2 /\ letter1 # letter2
        THEN <<TRUE, "Relative major/minor">>
        ELSE IF letter1 = letter2 /\ (num1 + 1 = num2 \/ num1 - 1 = num2)
        THEN <<TRUE, "Adjacent key">>
        ELSE <<FALSE, "Incompatible keys">>

(* lines 259-291: (compatible, reason) *)
are_keys_compatible(key1, key2) ==
    IF key1 = Unknown \/ key2 = Unknown THEN <<FALSE, "Unknown key">>
    ELSE IF key1 = key2 THEN <<TRUE, "Perfect match (same key)">>
    ELSE
    LET num1 == int(SubSeq(key1, 1, Len(key1) - 1))
        letter1 == key1[Len(key1)]
        num2 == int(SubSeq(key2, 1, Len(key2) - 1))
        letter2 == key2[Len(key2)]
    IN  IF num1 = num2 /\ letter1 # letter2
        THEN <<TRUE, "Relative major/minor">>
        ELSE IF letter1 = letter2
                /\ \/ (num1 + 1) % 12 = num2 % 12
                   \/ (num1 - 1) % 12 = num2 % 12
        THEN <<TRUE, "Adjacent key">>
        ELSE <<FALSE, "Incompatible keys">>

(* str(n) + letter, for the codes of the Camelot wheel *)
Camelot(n, letter) ==
    (IF n >= 10 THEN <<DecimalDigits[(n \div 10) + 1]>> ELSE <<>>)
        \o <<DecimalDigits[(n % 10) + 1], letter>>

CamelotCodes ==
    {Camelot(n, letter) : n \in 1..12, letter \in {"A", "B"}} \cup {Unknown}

---------------------------------------------------------------------------
(* backend/auth.py.  A calendar day is a positive integer standing for the
   string time.strftime("%Y-%m-%d") returns; 0 stands for the date "" of a
   key that was never counted. *)

(* lines 12-15 *)
VALID_API_KEYS ==
    [k \in {"sk_demo_free_12345", "sk_demo_pro_99999"} |->
        IF k = "sk_demo_free_12345"
        THEN [tier |-> "free", daily_limit |-> 50]
        ELSE [tier |-> "pro", daily_limit |-> 1000]]

(* "not api_key": no X-API-Key header (None), or an empty one *)
Missing == ""

(* line 19: defaultdict(lambda: {"date": "", "count": 0}) *)
NoUsage == [date |-> 0, count |-> 0]

(* the limit test with > for >= *)
get_api_key_over_limit(key, day, tracker) ==
    IF key = Missing
    THEN [status |-> "403", tracker |-> tracker, returned |-> FALSE]
    ELSE IF key \notin DOMAIN VALID_API_KEYS
    THEN [status |-> "401", tracker |-> tracker, returned |-> FALSE]
    ELSE
    LET limit == VALID_API_KEYS[key].daily_limit
        user_usage == IF tracker[key].date # day
                      THEN [date |-> day, count |-> 0]
                      ELSE tracker[key]
        reset == [tracker EXCEPT ![key] = user_usage]
    IN  IF user_usage.count > limit
        THEN [status |-> "429", tracker |-> reset, returned |-> FALSE]
        ELSE [status |-> "200",
              tracker |-> [reset EXCEPT ![key].count = @ + 1],
              returned |-> TRUE]

(* lines 21-62, which hold no await: the coroutine runs from its first line
   to its return or raise without another request in between.  day is what
   time.strftime returns at line 44.  The result is the HTTP status, the
   tracker as the call leaves it, and whether api_key was returned. *)
get_api_key(key, day, tracker) ==
    IF key = Missing
    THEN [status |-> "403", tracker |-> tracker, returned |-> FALSE]
    ELSE IF key \notin DOMAIN VALID_API_KEYS
    THEN [status |-> "401", tracker |-> tracker, returned |-> FALSE]
    ELSE
    LET limit == VALID_API_KEYS[key].daily_limit
        user_usage == IF tracker[key].date # day
                      THEN [date |-> day, count |-> 0]
                      ELSE tracker[key]
        reset == [tracker EXCEPT ![key] = user_usage]
    IN  IF user_usage.count >= limit
        THEN [status |-> "429", tracker |-> reset, returned |-> FALSE]
        ELSE [status |-> "200",
              tracker |-> [reset EXCEPT ![key].count = @ + 1],
              returned |-> TRUE]

---------------------------------------------------------------------------
(* Inputs *)

(* a decoded stereo track of n frames; the seed tells tracks apart *)
AudioOf(n, seed) ==
    [i \in 1..n |-> <<Rat(seed + i, 1), Rat(-(seed + 2 * i), 1)>>]

Tracks1 == {AudioOf(n, 0) : n \in 0..MaxLen}

Tracks2 == {AudioOf(n, 10) : n \in 0..MaxLen}

Styles == {"classic", "bass_swap", "filter_sweep"}

NoResult == [err |-> FALSE, mixed |-> <<>>, audio1 |-> <<>>, audio2 |-> <<>>,
             fresh |-> FALSE]

NoWindow == [fade_samples |-> 0, fade_start |-> 0, fade_end |-> 0,
             actual_fade_samples |-> 0]

NoAnalysis ==
    [beats |-> <<>>,
     segments |-> [intro |-> [start |-> 0, end |-> 0],
                   outro |-> [start |-> 0, end |-> 0]]]

NoAlign == [audio1 |-> <<>>, audio2 |-> <<>>, aligned_point1 |-> 0,
            first_beat2 |-> 0]

(* the content of a path that does not exist *)
Absent == <<"absent">>

NoTempo == [err |-> FALSE, audio |-> <<>>, same |-> FALSE, calls |-> 0]

NoNorm == [audio |-> <<>>, input |-> <<>>, same |-> FALSE]

(* buffers for normalize_audio: n frames, silent but for one sample, and
   n frames of one level; n = 2 * k * k makes the RMS of the first rational *)
Levels == {Rat(0, 1), Rat(1, 4), Rat(-1, 4), Rat(1, 2), Rat(-1, 2),
           Rat(1, 1), Rat(-1, 1), Rat(2, 1), Rat(-2, 1)}

NormLens == {2 * k * k : k \in 1..MaxCrest}

Spike(n, at, channel, v) ==
    [i \in 1..n |-> IF i # at THEN ZeroFrame
                    ELSE IF channel = 1 THEN <<v, Rat(0, 1)>>
                    ELSE <<Rat(0, 1), v>>]

Steady(n, v, w) == [i \in 1..n |-> <<v, w>>]

NormInputs ==
    {Spike(n[1], n[2], channel, v) :
        n \in {<<m, at>> \in NormLens \X (1..2 * MaxCrest * MaxCrest) :
                  at <= m},
        channel \in 1..2, v \in Levels}
    \cup {Steady(u[1], u[2], u[3]) :
            u \in {t \in (1..MaxLen) \X Levels \X Levels :
                      RAbs(t[2]) = RAbs(t[3])}}

(* beat grids: ascending timestamps, in ticks *)
BeatTimes == {1, 3, 4, 7}

RECURSIVE Ascending(_)
Ascending(S) ==
    IF S = {} THEN <<>>
    ELSE LET m == CHOOSE x \in S : \A y \in S : x <= y
         IN  <<m>> \o Ascending(S \ {m})

BeatGrids == {Ascending(S) : S \in SUBSET BeatTimes}

IntroEnds == {0, IntroMinSeconds * TimeDen - 1, IntroMinSeconds * TimeDen,
              IntroMinSeconds * TimeDen + 1, (IntroMinSeconds + 1) * TimeDen}

Analyses1 ==
    {[beats |-> b,
      segments |-> [intro |-> [start |-> 0, end |-> 0],
                    outro |-> [start |-> s, end |-> MaxPoint]]] :
        b \in BeatGrids, s \in 0..MaxPoint}

Analyses2 ==
    {[beats |-> b,
      segments |-> [intro |-> [start |-> 0, end |-> e],
                    outro |-> [start |-> e, end |-> e]]] :
        b \in {<<>>, <<2, 5>>}, e \in IntroEnds}

(* duration strings: every string of at most MaxStr characters *)
Chars == {"1", "5", ".", "m", "h", "s", "M", "x"}

RECURSIVE Strings(_)
Strings(n) ==
    IF n = 0 THEN {<<>>}
    ELSE Strings(n - 1) \cup
         {Append(cs, c) : cs \in {x \in Strings(n - 1) : Len(x) = n - 1}, c \in Chars}

DurationStrings == Strings(MaxStr)

(* what the Analyzer returns for a track of 60 seconds at 120 bpm, for one
   of 4 seconds whose only beat is at 0, and for one of 200 seconds at
   160 bpm; the segments are those of detect_segments *)
Analysis60 ==
    [duration |-> 60 * TimeDen,
     bpm |-> Rat(120, 1),
     beats |-> <<9 * TimeDen, 30 * TimeDen, 51 * TimeDen>>,
     segments |-> [intro |-> [start |-> 0, end |-> 9 * TimeDen],
                   outro |-> [start |-> 51 * TimeDen, end |-> 60 * TimeDen]]]

Analysis4 ==
    [duration |-> 4 * TimeDen,
     bpm |-> Rat(120, 1),
     beats |-> <<0>>,
     segments |-> [intro |-> [start |-> 0, end |-> TimeDen],
                   outro |-> [start |-> 3 * TimeDen, end |-> 4 * TimeDen]]]

Analysis200 ==
    [duration |-> 200 * TimeDen,
     bpm |-> Rat(160, 1),
     beats |-> <<30 * TimeDen, 100 * TimeDen, 170 * TimeDen>>,
     segments |-> [intro |-> [start |-> 0, end |-> 30 * TimeDen],
                   outro |-> [start |-> 170 * TimeDen, end |-> 200 * TimeDen]]]

JobAnalyses == {Analysis60, Analysis4, Analysis200}

(* AudioAnalyzer(path).analyze_full() for the tracks of the model *)
AnalysisOf(track) ==
    CASE track = "song.mp3" -> Analysis60
      [] track = "b.mp3" -> Analysis4
      [] track = "clip.mp4" -> Analysis200
      [] track = "CLIP.MOV" -> Analysis60

(* a buffer of a job: the track it was decoded from, its length in samples,
   the splices and the normalizations it went through *)
Buffer(track, len) ==
    [src |-> track, len |-> len, splices |-> 0, normalized |-> 0]

(* load_audio(path): the decoded track, lines 22-38 *)
load_audio(track) ==
    Buffer(track, SamplesOf(Seconds(AnalysisOf(track).duration)))

NoBuffer == Buffer("none", 0)

AudioPaths == {p \in InputPaths : ~IsMedia(p)}

RECURSIVE TrackLists(_)
TrackLists(n) ==
    IF n = 0 THEN {<<>>}
    ELSE TrackLists(n - 1) \cup
         {Append(ts, t) : ts \in {x \in TrackLists(n - 1) : Len(x) = n - 1},
                          t \in AudioPaths}

(* a bpm is an integer number of 1/BpmDen beats per minute *)
Bpms == {BaseBpm, BaseBpm + 1, BaseBpm + 2, BaseBpm + 3, 2 * BaseBpm}

---------------------------------------------------------------------------
(* The crossfade synthesizer on its own: one call of create_crossfade *)

IdleBuffers ==
    /\ audio1 = <<>>
    /\ audio2 = <<>>

IdleCrossfade ==
    /\ mixout_point = 0
    /\ mixin_point = 0
    /\ crossfade_duration = 0
    /\ style = "classic"
    /\ mixed = NoResult
    /\ fade_window = NoWindow

IdleMatchTempo ==
    /\ ndim = 2
    /\ original_bpm = BaseBpm
    /\ target_bpm = BaseBpm
    /\ stretch_len = 0
    /\ tempo_ret = NoTempo

IdleTempo ==
    /\ audio = <<>>
    /\ IdleMatchTempo

IdleBeats ==
    /\ analysis1 = NoAnalysis
    /\ analysis2 = NoAnalysis
    /\ transition_bars = 0
    /\ beats1 = <<>>
    /\ beats2 = <<>>
    /\ transition_point = 0
    /\ select_ret = <<0, 0>>
    /\ align_ret = NoAlign
    /\ align_ret2 = NoAlign

IdleJob ==
    /\ op = "none"
    /\ input_path = "none"
    /\ output_path = "none"
    /\ target_duration_str = <<>>
    /\ track_paths = <<>>
    /\ fs = [p \in {} |-> Absent]
    /\ loaded = {}
    /\ written = {}
    /\ err = "none"
    /\ target_duration = Rat(0, 1)
    /\ analysis = NoAnalysis
    /\ required_loops = 0
    /\ full_mix = NoBuffer
    /\ iteration = 0

IdleKeys ==
    /\ camelot1 = <<>>
    /\ camelot2 = <<>>
    /\ keys_ret = <<FALSE, "">>

IdleNorm == norm_ret = NoNorm

IdleAuth ==
    /\ api_key = Missing
    /\ today = 1
    /\ usage_tracker = [k \in DOMAIN VALID_API_KEYS |-> NoUsage]
    /\ status = "none"
    /\ admitted = [k \in DOMAIN VALID_API_KEYS |-> 0]

IdleOther ==
    /\ IdleKeys
    /\ IdleNorm
    /\ IdleAuth

InitCrossfade ==
    /\ IdleOther
    /\ pc = "crossfade"
    /\ IdleTempo
    /\ IdleBeats
    /\ IdleJob
    /\ audio1 \in Tracks1
    /\ audio2 \in Tracks2
    /\ mixout_point \in 0..MaxPoint
    /\ mixin_point \in 0..MaxPoint
    /\ crossfade_duration \in 0..MaxDur
    /\ style \in Styles
    /\ mixed = NoResult
    /\ fade_window = NoWindow

CreateCrossfade ==
    /\ pc = "crossfade"
    /\ mixed' = create_crossfade(audio1, audio2, mixout_point, mixin_point,
                                 crossfade_duration, style)
    /\ fade_window' = CrossfadeWindow(audio1, mixout_point, crossfade_duration)
    /\ audio1' = mixed'.audio1
    /\ audio2' = mixed'.audio2
    /\ pc' = "crossfade_done"
    /\ UNCHANGED <<mixout_point, mixin_point, crossfade_duration, style>>
    /\ UNCHANGED <<tempoVars, beatVars, jobVars, otherVars>>

NextCrossfade == CreateCrossfade

SpecCrossfade == InitCrossfade /\ [][NextCrossfade]_vars

---------------------------------------------------------------------------
(* Claims about create_crossfade *)

Returned == pc = "crossfade_done" /\ ~mixed.err

mixout_samples == ToSamples(mixout_point)

mixin_samples == ToSamples(mixin_point)

(* C1: whenever create_crossfade returns a buffer, for any style, its length
   is max(len(A), mixout_samples + (len(B) - mixin_samples)). *)
C1_CrossfadeLength ==
    Returned =>
        Len(mixed.mixed) =
            Max(Len(audio1), mixout_samples + (Len(audio2) - mixin_samples))

C1_Witness ==
    /\ Returned
    /\ mixout_samples < Len(audio1)
    /\ Len(mixed.mixed) > Len(audio1)
    /\ mixin_samples > 0

(* C2: for every input, the fade window satisfies
   0 <= actual_fade_samples <= requested fade samples and fade_end <= len(A). *)
C2_FadeWindowInRange ==
    pc = "crossfade_done" =>
        /\ 0 <= fade_window.actual_fade_samples
        /\ fade_window.actual_fade_samples <= fade_window.fade_samples
        /\ fade_window.fade_end <= Len(audio1)

(* the buffer that holds A unscaled, then B from mixin_samples on placed at
   mixout_samples *)
Concatenation ==
    [i \in 1..Max(Len(audio1), mixout_samples + (Len(audio2) - mixin_samples)) |->
        IF i <= Len(audio1) THEN audio1[i]
        ELSE IF i > mixout_samples /\ mixin_samples + (i - mixout_samples) <= Len(audio2)
        THEN audio2[mixin_samples + (i - mixout_samples)]
        ELSE ZeroFrame]

(* C3: when mixout_samples >= len(A) (a zero-length fade window),
   create_crossfade raises nothing and returns A unscaled followed by B from
   mixin_samples on, placed at mixout_samples.  Stated for a mixin point
   inside B, so that a violation is due to the fade window alone. *)
C3_ZeroWindowConcatenates ==
    (/\ pc = "crossfade_done"
     /\ mixout_samples >= Len(audio1)
     /\ mixin_samples <= Len(audio2)) =>
        /\ ~mixed.err
        /\ mixed.mixed = Concatenation

(* C4: classic style, full-length window of n >= 2 samples: the first window
   sample is 1*A + 0*B, the last is 0*A + 1*B, and sample k of the window is
   A scaled by (n-1-k)/(n-1) plus B scaled by k/(n-1): linear gains that sum
   to one. *)
FullWindow ==
    /\ fade_window.actual_fade_samples = fade_window.fade_samples
    /\ mixin_samples + fade_window.fade_samples <= Len(audio2)
    /\ fade_window.fade_samples >= 2

C4_ClassicCurve ==
    (Returned /\ style = "classic" /\ FullWindow) =>
        LET n == fade_window.fade_samples
            first == fade_window.fade_start + 1
            last == fade_window.fade_end
        IN  /\ mixed.mixed[first] = audio1[first]
            /\ mixed.mixed[last] = audio2[mixin_samples + n]
            /\ \A k \in 0..(n - 1) :
                  LET gain1 == Rat(n - 1 - k, n - 1)
                      gain2 == Rat(k, n - 1)
                  IN  /\ RAdd(gain1, gain2) = Rat(1, 1)
                      /\ mixed.mixed[first + k] =
                            FAdd(FScale(audio1[first + k], gain1),
                                 FScale(audio2[mixin_samples + 1 + k], gain2))

C4_Witness ==
    /\ Returned
    /\ style = "classic"
    /\ FullWindow
    /\ fade_window.fade_samples = 3

(* C5: with a style other than classic and bass_swap, create_crossfade
   returns the same buffer, or the same error, as with style classic. *)
C5_FallbackIsClassic ==
    (pc = "crossfade_done" /\ style \notin {"classic", "bass_swap"}) =>
        mixed = create_crossfade(audio1, audio2, mixout_point, mixin_point,
                                 crossfade_duration, "classic")

C5_Witness ==
    /\ Returned
    /\ style = "filter_sweep"
    /\ fade_window.actual_fade_samples >= 2
    /\ mixin_samples + fade_window.actual_fade_samples > Len(audio2)
    /\ mixin_samples < Len(audio2)

(* sample k (from 0) of the fade window of a returned bass swap is A under
   the classic fade-out gain plus B under the gain g *)
BassSwapSample(k, g) ==
    LET n == fade_window.actual_fade_samples
        i == fade_window.fade_start + 1 + k
        gain1 == IF n = 1 THEN Rat(1, 1) ELSE Rat(n - 1 - k, n - 1)
    IN  mixed.mixed[i] = FAdd(FScale(audio1[i], gain1),
                              FScale(audio2[mixin_samples + 1 + k], g))

(* the gain at sample k (from 0) of a linear 0 -> 1 ramp over m >= 2 samples *)
RampGain(m, k) == Rat(k, m - 1)

(* B reaches to the end of the fade window *)
WindowInB == mixin_samples + fade_window.actual_fade_samples <= Len(audio2)

(* samples k of a half of m >= 2 samples starting at sample from of the
   window carry B under a linear 0 -> 1 ramp *)
HalfRamps(from, m) ==
    \A k \in 0..(m - 1) : BassSwapSample(from + k, RampGain(m, k))

(* the samples of B after the window are copied verbatim *)
TailOfB ==
    \A i \in (fade_window.fade_end + 1)..Len(mixed.mixed) :
        LET s == mixin_samples + (i - fade_window.fade_start)
        IN  s <= Len(audio2) => mixed.mixed[i] = audio2[s]

(* C24 as stated, for every window of n samples: B's gain is 1.0 at the last
   sample of the first half, floor(n/2) >= 1 samples long, 0.0 at the first
   sample of the second half, and linear in between in each half; A is under
   the classic fade-out; B's samples after the window are copied. *)
C24_BassSwapRampsAnyWindow ==
    (Returned /\ style = "bass_swap" /\ WindowInB) =>
        LET n == fade_window.actual_fade_samples
            half == n \div 2
        IN  /\ half >= 1 => BassSwapSample(half - 1, Rat(1, 1))
            /\ half >= 1 => BassSwapSample(0, Rat(0, 1))
            /\ n - half >= 1 => BassSwapSample(half, Rat(0, 1))
            /\ half >= 2 => HalfRamps(0, half)
            /\ n - half >= 2 => HalfRamps(half, n - half)
            /\ TailOfB

(* C24: for style 'bass_swap' with a fade window of n samples, either half
   of which has at least two samples where it is said to ramp, A is
   multiplied by the classic linear 1 -> 0 curve over the whole window and B
   (from mixin_samples) is added under two consecutive linear 0 -> 1 ramps,
   over the first floor(n/2) samples and over the remaining ones: B's gain
   is 1.0 at the last sample of the first half and 0.0 at the first sample
   of the second half; a half of one sample carries B with gain 0.0; B's
   samples after the window are copied verbatim. *)
C24_BassSwapRamps ==
    (Returned /\ style = "bass_swap" /\ WindowInB) =>
        LET n == fade_window.actual_fade_samples
            half == n \div 2
        IN  /\ half >= 2 => BassSwapSample(half - 1, Rat(1, 1))
            /\ half = 1 => BassSwapSample(0, Rat(0, 1))
            /\ n - half >= 1 => BassSwapSample(half, Rat(0, 1))
            /\ half >= 2 => HalfRamps(0, half)
            /\ n - half >= 2 => HalfRamps(half, n - half)
            /\ TailOfB

(* a window of four samples, two in each half, with B going on after it *)
C24_Witness ==
    /\ Returned
    /\ style = "bass_swap"
    /\ fade_window.actual_fade_samples = 4
    /\ mixin_samples = 0
    /\ Len(audio2) = 4
    /\ BassSwapSample(1, Rat(1, 1))
    /\ BassSwapSample(2, Rat(0, 1))

(* C26: on every input on which create_crossfade with style 'classic'
   returns a buffer, the call with style 'bass_swap' returns a buffer of the
   same length and does not raise, also when B has fewer than
   actual_fade_samples samples after mixin_samples. *)
C26_BassSwapReturnsWhereClassicDoes ==
    (pc = "crossfade_done" /\ style = "bass_swap") =>
        LET classic == create_crossfade(audio1, audio2, mixout_point,
                                        mixin_point, crossfade_duration,
                                        "classic")
        IN  ~classic.err =>
                /\ ~mixed.err
                /\ Len(mixed.mixed) = Len(classic.mixed)

(* C27: in the output of create_crossfade with style 'classic', A
   contributes nothing after the end of the fade window: every sample at an
   index i >= fade_end is B[mixin_samples + (i - fade_start)] where B has
   such a sample and 0 otherwise, also where A extends past fade_end and
   B's remainder is shorter than A's tail.  Indices count from 0. *)
C27_NothingOfAAfterWindow ==
    (Returned /\ style = "classic") =>
        \A i \in fade_window.fade_end..(Len(mixed.mixed) - 1) :
            LET s == mixin_samples + (i - fade_window.fade_start)
            IN  mixed.mixed[i + 1] = IF s < Len(audio2) THEN audio2[s + 1]
                                     ELSE ZeroFrame

---------------------------------------------------------------------------
(* The tempo matcher on its own: one call of match_tempo *)

InitTempo ==
    /\ IdleOther
    /\ pc = "tempo"
    /\ IdleBuffers
    /\ IdleCrossfade
    /\ IdleBeats
    /\ IdleJob
    /\ audio \in Tracks1
    /\ ndim \in {1, 2}
    /\ original_bpm \in Bpms
    /\ target_bpm \in Bpms
    /\ stretch_len = 0
    /\ tempo_ret = NoTempo

MatchTempo ==
    /\ pc = "tempo"
    /\ \E m \in StretchLengths(Len(audio), original_bpm, target_bpm) :
          LET ret == match_tempo(audio, ndim, original_bpm, target_bpm, m)
          IN  /\ tempo_ret' = ret
              /\ stretch_len' = IF ret.calls = 0 THEN 0 ELSE m
    /\ pc' = "tempo_done"
    /\ UNCHANGED <<audio, ndim, original_bpm, target_bpm>>
    /\ UNCHANGED <<bufferVars, crossfadeVars, beatVars, jobVars, otherVars>>

NextTempo == MatchTempo

SpecTempo == InitTempo /\ [][NextTempo]_vars

(* C6: when |original_bpm - target_bpm| < 0.5, and so whenever the two are
   equal, match_tempo returns its argument itself, unchanged, and never
   calls the stretch primitive. *)
C6_TempoIdentity ==
    (pc = "tempo_done" /\ 2 * Abs(original_bpm - target_bpm) < BpmDen) =>
        /\ ~tempo_ret.err
        /\ tempo_ret.same
        /\ tempo_ret.audio = audio
        /\ tempo_ret.calls = 0

C6_Witness ==
    /\ pc = "tempo_done"
    /\ original_bpm # target_bpm
    /\ 2 * Abs(original_bpm - target_bpm) < BpmDen
    /\ Len(audio) > 1
    /\ tempo_ret.same

(* C7: when |original_bpm - target_bpm| >= 0.5, match_tempo on a stereo
   buffer succeeds and returns per channel the stretch primitive's output,
   so the returned length is the primitive's output length, equal to the
   input length or not. *)
C7_StretchedLength ==
    (/\ pc = "tempo_done"
     /\ ndim = 2
     /\ 2 * Abs(original_bpm - target_bpm) >= BpmDen) =>
        /\ ~tempo_ret.err
        /\ Len(tempo_ret.audio) = stretch_len
        /\ tempo_ret.audio = time_stretch(audio, stretch_len)

---------------------------------------------------------------------------
(* The tempo matching of the playlist loop on its own, mix_playlist lines
   376-380 with match_tempo enabled: the call of match_tempo on the next
   track (original_bpm its bpm, target_bpm the reference bpm), then the
   update of its beats, held in beats2 *)

RationalGrids == {[i \in 1..Len(g) |-> Rat(g[i], 1)] : g \in BeatGrids}

InitMatch ==
    /\ IdleOther
    /\ pc = "tempo"
    /\ IdleBuffers
    /\ IdleCrossfade
    /\ IdleJob
    /\ audio \in Tracks1
    /\ ndim = 2
    /\ original_bpm \in Bpms
    /\ target_bpm \in Bpms
    /\ stretch_len = 0
    /\ tempo_ret = NoTempo
    /\ analysis1 = NoAnalysis
    /\ analysis2 = NoAnalysis
    /\ transition_bars = 0
    /\ beats1 = <<>>
    /\ beats2 \in RationalGrids
    /\ transition_point = 0
    /\ select_ret = <<0, 0>>
    /\ align_ret = NoAlign
    /\ align_ret2 = NoAlign

(* lines 378-380, reached when match_tempo returned *)
RescaleBeats ==
    /\ pc = "tempo_done"
    /\ ~tempo_ret.err
    /\ beats2' = RescaledBeats(beats2, target_bpm, original_bpm)
    /\ pc' = "rescaled"
    /\ UNCHANGED <<analysis1, analysis2, transition_bars, beats1,
                   transition_point, select_ret, align_ret, align_ret2>>
    /\ UNCHANGED <<bufferVars, crossfadeVars, tempoVars, jobVars, otherVars>>

NextMatch == MatchTempo \/ RescaleBeats

SpecMatch == InitMatch /\ [][NextMatch]_vars

(* C23: with tempo matching enabled, the next track's beats are divided by
   rate = reference_bpm / track_bpm exactly when match_tempo stretched the
   buffer; when match_tempo returned the buffer itself (the bpm values less
   than 0.5 apart, equal or not) the beats are left as they were. *)
C23_BeatsFollowBuffer ==
    [][(pc = "tempo_done" /\ pc' = "rescaled") =>
          beats2' = IF tempo_ret.same THEN beats2
                    ELSE [i \in 1..Len(beats2) |->
                             RMul(beats2[i], Rat(original_bpm, target_bpm))]]_vars

---------------------------------------------------------------------------
(* The transition point selector and the beat aligner: one call of
   find_optimal_transition_point, one of align_beats on a candidate point,
   and one of align_beats on the point it returned *)

InitBeats ==
    /\ IdleOther
    /\ pc = "beats"
    /\ audio1 \in {AudioOf(1, 0), AudioOf(2, 0)}
    /\ audio2 = AudioOf(1, 10)
    /\ IdleCrossfade
    /\ IdleTempo
    /\ IdleJob
    /\ analysis1 \in Analyses1
    /\ analysis2 \in Analyses2
    /\ transition_bars \in 1..MaxBars
    /\ beats1 = analysis1.beats
    /\ beats2 = analysis2.beats
    /\ transition_point \in 0..MaxPoint
    /\ select_ret = <<0, 0>>
    /\ align_ret = NoAlign
    /\ align_ret2 = NoAlign

FindTransition ==
    /\ pc = "beats"
    /\ select_ret' = find_optimal_transition_point(analysis1, analysis2,
                                                   transition_bars)
    /\ pc' = "selected"
    /\ UNCHANGED <<analysis1, analysis2, transition_bars, beats1, beats2,
                   transition_point, align_ret, align_ret2>>
    /\ UNCHANGED <<bufferVars, crossfadeVars, tempoVars, jobVars,
                   otherVars>>

AlignBeats ==
    /\ pc = "selected"
    /\ align_ret' = align_beats(audio1, audio2, beats1, beats2, transition_point)
    /\ pc' = "aligned"
    /\ UNCHANGED <<analysis1, analysis2, transition_bars, beats1, beats2,
                   transition_point, select_ret, align_ret2>>
    /\ UNCHANGED <<bufferVars, crossfadeVars, tempoVars, jobVars,
                   otherVars>>

AlignAgain ==
    /\ pc = "aligned"
    /\ align_ret2' = align_beats(align_ret.audio1, align_ret.audio2, beats1,
                                 beats2, align_ret.aligned_point1)
    /\ pc' = "realigned"
    /\ UNCHANGED <<analysis1, analysis2, transition_bars, beats1, beats2,
                   transition_point, select_ret, align_ret>>
    /\ UNCHANGED <<bufferVars, crossfadeVars, tempoVars, jobVars,
                   otherVars>>

NextBeats == FindTransition \/ AlignBeats \/ AlignAgain

SpecBeats == InitBeats /\ [][NextBeats]_vars

(* b is the beat of grid nearest to point, the earliest one on a tie *)
IsNearest(b, grid, point) ==
    /\ \E i \in 1..Len(grid) : grid[i] = b
    /\ \A i \in 1..Len(grid) :
          \/ Abs(b - point) < Abs(grid[i] - point)
          \/ Abs(b - point) = Abs(grid[i] - point) /\ b <= grid[i]

(* C8: find_optimal_transition_point returns as mixout the beat of
   analysisA.beats nearest to outro.start (the earliest on a tie), or
   outro.start when there is no beat; as mixin intro.end of analysisB when
   it is more than 5 seconds, else 0, never snapped to a beat; and the
   result is the same for every number of bars. *)
C8_TransitionPoint ==
    pc = "selected" =>
        LET start == analysis1.segments.outro.start
            end2 == analysis2.segments.intro.end
        IN  /\ IF analysis1.beats = <<>> THEN select_ret[1] = start
               ELSE IsNearest(select_ret[1], analysis1.beats, start)
            /\ select_ret[2] = IF end2 > 5 * TimeDen THEN end2 ELSE 0
            /\ \A bars \in 1..(MaxBars + 1) :
                  find_optimal_transition_point(analysis1, analysis2, bars)
                      = select_ret

C8_Witness ==
    /\ pc = "selected"
    /\ analysis1.beats = <<1, 3, 4>>
    /\ analysis1.segments.outro.start = 2
    /\ select_ret[1] = 1
    /\ analysis2.segments.intro.end = 5 * TimeDen + 1
    /\ analysis2.beats # <<>>
    /\ select_ret[2] = 5 * TimeDen + 1

(* C9: align_beats returns both buffers unchanged and the beat of beatsA
   nearest to the candidate (the earliest on a tie), or the candidate when
   beatsA is empty; the point does not depend on beatsB; and align_beats
   applied to its own result returns the same point. *)
C9_AlignBeats ==
    /\ pc \in {"aligned", "realigned"} =>
          /\ align_ret.audio1 = audio1
          /\ align_ret.audio2 = audio2
          /\ IF beats1 = <<>> THEN align_ret.aligned_point1 = transition_point
             ELSE IsNearest(align_ret.aligned_point1, beats1, transition_point)
          /\ \A b2 \in BeatGrids :
                align_beats(audio1, audio2, beats1, b2,
                            transition_point).aligned_point1
                    = align_ret.aligned_point1
    /\ pc = "realigned" =>
          /\ align_ret2.aligned_point1 = align_ret.aligned_point1
          /\ align_ret2.audio1 = audio1
          /\ align_ret2.audio2 = audio2

C9_Witness ==
    /\ pc = "realigned"
    /\ beats1 = <<1, 3, 7>>
    /\ transition_point = 5
    /\ align_ret.aligned_point1 = 3
    /\ align_ret2.aligned_point1 = 3
    /\ beats2 # <<>>

---------------------------------------------------------------------------
(* Jobs: each job is one call of MusicExtender.extend_track or of
   AdvancedMixer.mix_playlist, seen through the files it reads and writes
   and the length of the buffer it builds.  The jobs run in one working
   directory and share the file system; a step of a job is one of the
   stages below, and the stages of different jobs interleave. *)

(* the content of a file holding the buffer buf *)
Content(kind, buf) == <<kind, buf.src, buf.len, buf.splices, buf.normalized>>

(* the buffer read from a file: an input file is decoded, a file a job
   wrote holds the buffer that was written *)
Decode(content) ==
    IF content[1] = "media" THEN load_audio(content[2])
    ELSE [src |-> content[2], len |-> content[3], splices |-> content[4],
          normalized |-> content[5]]

InitFiles == [p \in Paths |-> IF p \in InputPaths THEN <<"media", p>> ELSE Absent]

Set(f, j, v) == [f EXCEPT ![j] = v]

InitLocals(ids) ==
    /\ pc = [j \in ids |-> "start"]
    /\ fs = InitFiles
    /\ loaded = [j \in ids |-> {}]
    /\ written = [j \in ids |-> {}]
    /\ err = [j \in ids |-> "none"]
    /\ target_duration = [j \in ids |-> Rat(0, 1)]
    /\ analysis = [j \in ids |-> NoAnalysis]
    /\ required_loops = [j \in ids |-> 0]
    /\ full_mix = [j \in ids |-> NoBuffer]
    /\ iteration = [j \in ids |-> 0]

(* one job *)
InitJob ==
    /\ IdleOther
    /\ IdleBuffers
    /\ IdleCrossfade
    /\ IdleMatchTempo
    /\ IdleBeats
    /\ InitLocals({1})
    /\ audio = [j \in {1} |-> NoBuffer]
    /\ output_path = [j \in {1} |-> "out1"]
    /\ \/ /\ op = [j \in {1} |-> "extend"]
          /\ input_path \in [{1} -> InputPaths]
          /\ target_duration_str \in [{1} -> DurationStrings]
          /\ track_paths = [j \in {1} |-> <<>>]
       \/ /\ op = [j \in {1} |-> "mix"]
          /\ input_path = [j \in {1} |-> "none"]
          /\ target_duration_str = [j \in {1} |-> <<>>]
          /\ track_paths \in [{1} -> TrackLists(MaxTracks)]

Write(j, path, content) ==
    /\ fs' = [fs EXCEPT ![path] = content]
    /\ written' = Set(written, j, written[j] \cup {path})

(* what no job touches; audio is extend_track's local of line 77, the
   source track, a function of the job *)
JobFrame ==
    UNCHANGED <<jobArgs, bufferVars, crossfadeVars, ndim, original_bpm,
                target_bpm, stretch_len, tempo_ret, beatVars, otherVars>>

(* extend_track lines 42-62: the audio of a video goes to a temporary file *)
ExtractAudio(j) ==
    /\ j \in DOMAIN pc
    /\ pc[j] = "start" /\ op[j] = "extend"
    /\ IF IsVideo(input_path[j])
       THEN /\ loaded' = Set(loaded, j, loaded[j] \cup {input_path[j]})
            /\ Write(j, video_temp_audio,
                     Content("wav", load_audio(input_path[j])))
       ELSE UNCHANGED <<loaded, fs, written>>
    /\ pc' = Set(pc, j, "parse")
    /\ UNCHANGED <<err, target_duration, analysis, required_loops, full_mix,
                   iteration>>
    /\ UNCHANGED audio
    /\ JobFrame

(* extend_track line 64 *)
ParseDuration(j) ==
    /\ j \in DOMAIN pc
    /\ pc[j] = "parse"
    /\ LET r == parse_duration(target_duration_str[j])
       IN  IF r.ok
           THEN /\ target_duration' = Set(target_duration, j, r.v)
                /\ pc' = Set(pc, j, "analyze")
                /\ err' = err
           ELSE /\ err' = Set(err, j, "ValueError")
                /\ pc' = Set(pc, j, "raised")
                /\ target_duration' = target_duration
    /\ UNCHANGED <<fs, loaded, written, analysis, required_loops, full_mix,
                   iteration>>
    /\ UNCHANGED audio
    /\ JobFrame

(* extend_track lines 70-78: AudioAnalyzer(actual_input).analyze_full(),
   then load_audio(input_path) *)
Analyze(j) ==
    /\ j \in DOMAIN pc
    /\ pc[j] = "analyze"
    /\ LET actual_input == IF IsVideo(input_path[j]) THEN video_temp_audio
                           ELSE input_path[j]
       IN  IF ~Decodable(actual_input) \/ fs[actual_input] = Absent
           THEN /\ err' = Set(err, j, "DecodeError")
                /\ pc' = Set(pc, j, "raised")
                /\ loaded' = Set(loaded, j, loaded[j] \cup {actual_input})
                /\ UNCHANGED <<analysis, full_mix, audio>>
           ELSE /\ loaded' = Set(loaded, j,
                                 loaded[j] \cup {actual_input, input_path[j]})
                /\ analysis' = Set(analysis, j,
                                   AnalysisOf(Decode(fs[actual_input]).src))
                /\ audio' = Set(audio, j, load_audio(input_path[j]))
                /\ full_mix' = Set(full_mix, j, load_audio(input_path[j]))
                /\ pc' = Set(pc, j, "plan")
                /\ err' = err
    /\ UNCHANGED <<fs, written, target_duration, required_loops, iteration>>
    /\ JobFrame

(* extend_track lines 87-111 and 190; full_mix holds audio from line 77 on *)
PlanLoops(j) ==
    /\ j \in DOMAIN pc
    /\ pc[j] = "plan"
    /\ LET plan == ExtendPlan(analysis[j], target_duration[j])
       IN  /\ required_loops' = Set(required_loops, j, plan.required_loops)
           /\ IF plan.required_loops <= 1
              THEN /\ Write(j, output_path[j], Content("pcm", full_mix[j]))
                   /\ pc' = Set(pc, j, "returned")
              ELSE /\ UNCHANGED <<fs, written>>
                   /\ pc' = Set(pc, j, "loop")
    /\ UNCHANGED <<loaded, err, target_duration, analysis, full_mix, iteration>>
    /\ UNCHANGED audio
    /\ JobFrame

(* extend_track lines 192-271: one pass of "for i in range(required_loops - 1)" *)
BuildLoop(j) ==
    /\ j \in DOMAIN pc
    /\ pc[j] = "loop"
    /\ iteration[j] < MaxLoops
    /\ LET plan == ExtendPlan(analysis[j], target_duration[j])
           crossfade_samples ==
               SamplesOf(BarsDuration(analysis[j].bpm, DefaultTransitionBars))
           r == ExtendSplice(full_mix[j].len,
                             audio[j].len,
                             Seconds(analysis[j].duration),
                             plan.mixout_point, plan.mixin_point,
                             crossfade_samples)
       IN  IF iteration[j] >= required_loops[j] - 1
           THEN /\ pc' = Set(pc, j, "save")
                /\ UNCHANGED <<err, full_mix, iteration>>
           ELSE IF ~r.ok
           THEN /\ pc' = Set(pc, j, "raised")
                /\ err' = Set(err, j, "ValueError")
                /\ iteration' = Set(iteration, j, iteration[j] + 1)
                /\ UNCHANGED full_mix
           ELSE /\ full_mix' = Set(full_mix, j,
                                   [full_mix[j] EXCEPT !.len = r.v,
                                                       !.splices = @ + 1])
                /\ iteration' = Set(iteration, j, iteration[j] + 1)
                /\ pc' = Set(pc, j,
                             IF DurationReached(r.v, target_duration[j])
                             THEN "save" ELSE "loop")
                /\ err' = err
    \* prev_keep, next_audio and the overlaps are slices that are only read;
    \* the products, the sum and np.concatenate allocate
    /\ audio' = audio
    /\ UNCHANGED <<fs, loaded, written, target_duration, analysis,
                   required_loops>>
    /\ JobFrame

(* extend_track lines 275-281 *)
SaveAudio(j) ==
    /\ j \in DOMAIN pc
    /\ pc[j] = "save"
    /\ LET audio_output == IF ~IsMedia(input_path[j]) THEN output_path[j]
                           ELSE temp_extended_audio
           normalized == [full_mix[j] EXCEPT !.normalized = @ + 1]
       IN  /\ full_mix' = Set(full_mix, j, normalized)
           /\ Write(j, audio_output, Content("wav", normalized))
    /\ pc' = Set(pc, j, IF IsMedia(input_path[j]) THEN "render" ELSE "returned")
    /\ UNCHANGED <<loaded, err, target_duration, analysis, required_loops,
                   iteration>>
    /\ UNCHANGED audio
    /\ JobFrame

(* extend_track lines 284-315: the audio of the written media is read back
   from the temporary file *)
RenderMedia(j) ==
    /\ j \in DOMAIN pc
    /\ pc[j] = "render"
    /\ IF fs[temp_extended_audio] = Absent
       THEN /\ err' = Set(err, j, "IOError")
            /\ pc' = Set(pc, j, "raised")
            /\ UNCHANGED <<fs, written>>
       ELSE /\ Write(j, output_path[j],
                     Content("video", Decode(fs[temp_extended_audio])))
            /\ pc' = Set(pc, j, "cleanup")
            /\ err' = err
    /\ loaded' = Set(loaded, j, loaded[j] \cup {temp_extended_audio, input_path[j]})
    /\ UNCHANGED <<target_duration, analysis, required_loops, full_mix,
                   iteration>>
    /\ UNCHANGED audio
    /\ JobFrame

(* extend_track lines 317-322 *)
Cleanup(j) ==
    /\ j \in DOMAIN pc
    /\ pc[j] = "cleanup"
    /\ fs' = [fs EXCEPT ![video_temp_audio] = Absent,
                        ![temp_extended_audio] = Absent]
    /\ pc' = Set(pc, j, "returned")
    /\ UNCHANGED <<loaded, written, err, target_duration, analysis,
                   required_loops, full_mix, iteration>>
    /\ UNCHANGED audio
    /\ JobFrame

(* mix_playlist lines 343-346 *)
MixCheck(j) ==
    /\ j \in DOMAIN pc
    /\ pc[j] = "start" /\ op[j] = "mix"
    /\ IF track_paths[j] = <<>>
       THEN /\ err' = Set(err, j, "ValueError")
            /\ pc' = Set(pc, j, "raised")
       ELSE /\ err' = err
            /\ pc' = Set(pc, j, IF Len(track_paths[j]) = 1 THEN "mix_single"
                                ELSE "mix_first")
    /\ UNCHANGED <<fs, loaded, written, target_duration, analysis,
                   required_loops, full_mix, iteration>>
    /\ UNCHANGED audio
    /\ JobFrame

(* the single track normalized as the first track of a longer list is *)
mix_single_normalized(track) ==
    [load_audio(track) EXCEPT !.normalized = @ + 1]

(* mix_playlist lines 348-349: the buffer written for a single track *)
mix_single(track) == load_audio(track)

(* mix_playlist lines 346-350 *)
MixSingle(j) ==
    /\ j \in DOMAIN pc
    /\ pc[j] = "mix_single"
    /\ loaded' = Set(loaded, j, loaded[j] \cup {track_paths[j][1]})
    /\ full_mix' = Set(full_mix, j, mix_single(track_paths[j][1]))
    /\ Write(j, output_path[j], Content("pcm", mix_single(track_paths[j][1])))
    /\ pc' = Set(pc, j, "returned")
    /\ UNCHANGED <<err, target_duration, analysis, required_loops, iteration>>
    /\ UNCHANGED audio
    /\ JobFrame

(* mix_playlist lines 356-365: current_audio, current_analysis *)
MixFirst(j) ==
    /\ j \in DOMAIN pc
    /\ pc[j] = "mix_first"
    /\ loaded' = Set(loaded, j, loaded[j] \cup {track_paths[j][1]})
    /\ analysis' = Set(analysis, j, AnalysisOf(track_paths[j][1]))
    /\ full_mix' = Set(full_mix, j,
                       [load_audio(track_paths[j][1]) EXCEPT !.normalized = @ + 1])
    /\ pc' = Set(pc, j, "mix_loop")
    /\ UNCHANGED <<fs, written, err, target_duration, required_loops, iteration>>
    /\ UNCHANGED audio
    /\ JobFrame

(* mix_playlist lines 367-369: the module never imports os, so the first
   statement of the loop body, which prints os.path.basename(...), raises *)
MixLoop(j) ==
    /\ j \in DOMAIN pc
    /\ pc[j] = "mix_loop"
    /\ err' = Set(err, j, "NameError")
    /\ pc' = Set(pc, j, "raised")
    /\ UNCHANGED <<fs, loaded, written, target_duration, analysis,
                   required_loops, full_mix, iteration>>
    /\ UNCHANGED audio
    /\ JobFrame

(* the jobs that may exist; those of a behaviour are DOMAIN pc *)
JobIds == {1, 2}

NextJob ==
    \E j \in JobIds :
        \/ ExtractAudio(j) \/ ParseDuration(j) \/ Analyze(j) \/ PlanLoops(j)
        \/ BuildLoop(j) \/ SaveAudio(j) \/ RenderMedia(j) \/ Cleanup(j)
        \/ MixCheck(j) \/ MixSingle(j) \/ MixFirst(j) \/ MixLoop(j)

SpecJob == InitJob /\ [][NextJob]_vars

(* C10: an invalid input fails fast with nothing written: mix_playlist with
   an empty track list raises before any file is loaded or written, and
   extend_track with a non-numeric duration string raises before any file,
   output or temporary, is written, whatever the kind of the input path. *)
C10_InvalidInputWritesNothing ==
    \A j \in DOMAIN pc :
        /\ (op[j] = "mix" /\ track_paths[j] = <<>> /\ pc[j] # "start") =>
              /\ pc[j] = "raised"
              /\ loaded[j] = {}
              /\ written[j] = {}
              /\ fs = InitFiles
        /\ (op[j] = "extend" /\ ~parse_duration(target_duration_str[j]).ok
                             /\ pc[j] \notin {"start", "parse"}) =>
              /\ pc[j] = "raised"
              /\ written[j] = {}
              /\ fs = InitFiles

(* the job has gone through the plan of lines 87-111 *)
Planned(j) == pc[j] \in {"loop", "save", "render", "cleanup", "returned"}

(* the job has left the loop of lines 192-271 without an exception *)
LoopLeft(j) == pc[j] \in {"save", "render", "cleanup", "returned"}

(* C17 is stated on the call of parse_duration at line 64 of extend_track *)

(* cs is written as a number: digits and at most one point, with a digit *)
Numeric(cs) ==
    /\ \A i \in 1..Len(cs) : cs[i] \in {"1", "5", "."}
    /\ \E i \in 1..Len(cs) : cs[i] # "."
    /\ \A i \in 1..Len(cs), k \in 1..Len(cs) : (cs[i] = "." /\ cs[k] = ".") => i = k

(* the number cs writes: the digit at place i counts 10^(point - 1 - i)
   before the point and 1/10^(i - point) after it *)
RECURSIVE PlaceValues(_, _, _)
PlaceValues(cs, point, i) ==
    IF i > Len(cs) THEN Rat(0, 1)
    ELSE LET digit == IF cs[i] = "1" THEN 1 ELSE 5
             place == IF i < point THEN Rat(digit * Pow10(point - 1 - i), 1)
                      ELSE IF i > point THEN Rat(digit, Pow10(i - point))
                      ELSE Rat(0, 1)
         IN  RAdd(place, PlaceValues(cs, point, i + 1))

NumberOf(cs) ==
    LET point == IF \E i \in 1..Len(cs) : cs[i] = "."
                 THEN CHOOSE i \in 1..Len(cs) : cs[i] = "."
                 ELSE Len(cs) + 1
    IN  PlaceValues(cs, point, 1)

(* C17: parse_duration maps a numeric prefix n followed by m (or M) to
   n * 60, by h (or H) to n * 3600, by s (or S) or by nothing to n, and
   raises ValueError when the prefix before the suffix is not numeric, the
   empty prefix included. *)
C17_ParseDuration ==
    \A j \in DOMAIN pc :
        (op[j] = "extend" /\ pc[j] \notin {"start", "parse"}) =>
            LET str == target_duration_str[j]
                last == IF str = <<>> THEN "" ELSE str[Len(str)]
                suffixed == last \in {"m", "M", "h", "H", "s", "S"}
                prefix == IF suffixed THEN SubSeq(str, 1, Len(str) - 1) ELSE str
                unit == IF last \in {"m", "M"} THEN 60
                        ELSE IF last \in {"h", "H"} THEN 3600
                        ELSE 1
            IN  IF Numeric(prefix)
                THEN target_duration[j] = RMul(NumberOf(prefix), Rat(unit, 1))
                ELSE /\ pc[j] = "raised"
                     /\ err[j] = "ValueError"
                     /\ target_duration[j] = Rat(0, 1)

C17_Witness ==
    \E j \in DOMAIN pc :
        /\ op[j] = "extend"
        /\ target_duration_str[j] = <<".", "5", "M">>
        /\ pc[j] = "plan"
        /\ target_duration[j] = Rat(30, 1)

(* C11: for a playlist of one track, mix_playlist writes exactly the decoded
   samples of that track: it returns normally, reads that track only, runs
   no analysis, and the buffer written to output_path has the decoded
   length and went through no splice and no normalization. *)
C11_SingleTrackPassthrough ==
    \A j \in DOMAIN pc :
        (op[j] = "mix" /\ Len(track_paths[j]) = 1
                       /\ pc[j] \notin {"start", "mix_single"}) =>
            LET track == track_paths[j][1]
                out == fs[output_path[j]]
            IN  /\ pc[j] = "returned"
                /\ err[j] = "none"
                /\ loaded[j] = {track}
                /\ written[j] = {output_path[j]}
                /\ analysis[j] = NoAnalysis
                /\ out[2] = track
                /\ Rat(out[3], sample_rate) = Seconds(AnalysisOf(track).duration)
                /\ out[4] = 0
                /\ out[5] = 0

C11_Witness ==
    \E j \in DOMAIN pc :
        /\ op[j] = "mix"
        /\ track_paths[j] = <<"song.mp3">>
        /\ pc[j] = "returned"
        /\ fs[output_path[j]] = <<"pcm", "song.mp3", 60 * sample_rate, 0, 0>>

(* C12: for a playlist of N >= 2 decodable tracks, mix_playlist ends
   normally, after N-1 splices, with the output written. *)
C12_PlaylistTerminates ==
    \A j \in DOMAIN pc :
        (op[j] = "mix" /\ Len(track_paths[j]) >= 2
                       /\ pc[j] \in {"returned", "raised"}) =>
            /\ pc[j] = "returned"
            /\ err[j] = "none"
            /\ full_mix[j].splices = Len(track_paths[j]) - 1
            /\ output_path[j] \in written[j]

(* What C20 says the running analysis is once next was spliced onto
   current: the beats of next under tempo_ratio = current bpm / next bpm and
   its outro, all shifted by the aligned mixout point less the mixin point *)
SplicedAnalysis(current, next) ==
    LET rescaled == [i \in 1..Len(next.beats) |->
                        (next.beats[i] * next.bpm[1] * current.bpm[2])
                            \div (next.bpm[2] * current.bpm[1])]
        points == find_optimal_transition_point(
                      current, [next EXCEPT !.beats = rescaled],
                      DefaultTransitionBars)
        aligned == align_beats(<<>>, <<>>, current.beats, rescaled, points[1])
        offset == aligned.aligned_point1 - points[2]
    IN  [bpm |-> current.bpm,
         beats |-> [i \in 1..Len(rescaled) |-> rescaled[i] + offset],
         segments |-> [intro |-> next.segments.intro,
                       outro |-> [start |-> next.segments.outro.start + offset,
                                  end |-> next.segments.outro.end + offset]]]

RECURSIVE RunningAnalysis(_, _)
RunningAnalysis(tracks, k) ==
    IF k = 1 THEN AnalysisOf(tracks[1])
    ELSE SplicedAnalysis(RunningAnalysis(tracks, k - 1), AnalysisOf(tracks[k]))

(* C20: in playlist mode every track after the first is spliced, and after
   the splice the running analysis has the first track's bpm, the merged
   track's tempo-rescaled beats shifted by offset = mixout_point -
   mixin_point, mixout_point being the value after beat alignment, and an
   outro shifted by the same offset. *)
C20_RunningAnalysisFollowsSplice ==
    \A j \in DOMAIN pc :
        (op[j] = "mix" /\ Len(track_paths[j]) >= 2
                       /\ pc[j] \in {"returned", "raised"}) =>
            LET expected == RunningAnalysis(track_paths[j],
                                            Len(track_paths[j]))
            IN  /\ full_mix[j].splices = Len(track_paths[j]) - 1
                /\ analysis[j].bpm = AnalysisOf(track_paths[j][1]).bpm
                /\ analysis[j].beats = expected.beats
                /\ analysis[j].segments.outro = expected.segments.outro

(* C13: when target_duration <= the track's original duration,
   required_loops <= 1 and extend_track takes the passthrough: it returns
   having written a buffer of the original length that went through no
   splice and no normalization. *)
C13_ShortTargetPassthrough ==
    \A j \in DOMAIN pc :
        (/\ op[j] = "extend"
         /\ Planned(j)
         /\ RLeq(target_duration[j], Seconds(analysis[j].duration))) =>
            /\ required_loops[j] <= 1
            /\ pc[j] = "returned"
            /\ fs[output_path[j]] =
                  <<"pcm", input_path[j], load_audio(input_path[j]).len, 0, 0>>

(* C14: with required_loops > 1, the loop runs at most required_loops - 1
   iterations, goes on only while the accumulated duration is below
   target_duration, and is left with an accumulated duration >=
   target_duration. *)
C14_LoopReachesTarget ==
    \A j \in DOMAIN pc :
        (op[j] = "extend" /\ required_loops[j] > 1) =>
            /\ iteration[j] <= required_loops[j] - 1
            /\ (pc[j] = "loop" /\ iteration[j] > 0) =>
                  ~DurationReached(full_mix[j].len, target_duration[j])
            /\ LoopLeft(j) =>
                  DurationReached(full_mix[j].len, target_duration[j])

(* C15: with required_loops > 1, the accumulated duration the loop is left
   with exceeds target_duration by at most one crossfade window,
   (60 / bpm) * 4 * transition_bars. *)
C15_OvershootWithinWindow ==
    \A j \in DOMAIN pc :
        (op[j] = "extend" /\ required_loops[j] > 1 /\ LoopLeft(j)) =>
            RLeq(RSub(Rat(full_mix[j].len, sample_rate), target_duration[j]),
                 BarsDuration(analysis[j].bpm, DefaultTransitionBars))

(* n is the least integer with n * y >= x, for y > 0 *)
LeastCount(n, x, y) ==
    /\ RLeq(x, RMul(Rat(n, 1), y))
    /\ ~RLeq(x, RMul(Rat(n - 1, 1), y))

(* C22: for every track of positive duration the plan of extend_track uses
   loop_length = mixout_point - mixin_point > 0: when the selected
   mixout_point - mixin_point is <= 0, loop_length, mixout_point and
   mixin_point become 0.8, 0.9 and 0.1 of the duration; required_loops is
   computed from these values and the plan raises no error. *)
C22_PlanLoopLength ==
    \A j \in DOMAIN pc :
        (op[j] = "extend" /\ Planned(j)) =>
            LET an == analysis[j]
                selected == find_optimal_transition_point(
                                an, an, DefaultTransitionBars)
                degenerate == selected[1] <= selected[2]
                mixout == IF degenerate THEN Rat(9 * an.duration, 10 * TimeDen)
                          ELSE Rat(selected[1], TimeDen)
                mixin == IF degenerate THEN Rat(an.duration, 10 * TimeDen)
                         ELSE Rat(selected[2], TimeDen)
                loop_length == IF degenerate
                               THEN Rat(8 * an.duration, 10 * TimeDen)
                               ELSE Rat(selected[1] - selected[2], TimeDen)
            IN  /\ an.duration > 0
                /\ RLt(Rat(0, 1), loop_length)
                /\ loop_length = RSub(mixout, mixin)
                /\ LeastCount(required_loops[j],
                              RSub(target_duration[j], mixin), loop_length)
                /\ err[j] = "none"

(* the 4 s track whose only beat is at 0 was planned, for a target of 11 s,
   on the fallback loop of 3.2 s from 0.4 s *)
C22_Witness ==
    \E j \in DOMAIN pc :
        /\ op[j] = "extend"
        /\ input_path[j] = "b.mp3"
        /\ target_duration[j] = Rat(11, 1)
        /\ pc[j] = "loop"
        /\ required_loops[j] = 4

(* C21: in extend_track with required_loops > 1, every iteration splices
   at current_length - int((original_duration - mixout_point) * sr) and
   lengthens the accumulated buffer by exactly loop_length = mixout_point -
   mixin_point, in samples, also when the crossfade window (60 / bpm) * 4 *
   bars is longer than original_duration - mixout_point: after k splices the
   buffer is k loop lengths longer than the source. *)
C21_IterationAddsLoopLength ==
    \A j \in DOMAIN pc :
        (op[j] = "extend" /\ required_loops[j] > 1 /\ Planned(j)) =>
            LET plan == ExtendPlan(analysis[j], target_duration[j])
                loop_samples == SamplesOf(plan.mixout_point)
                                    - SamplesOf(plan.mixin_point)
            IN  full_mix[j].len = load_audio(input_path[j]).len
                                      + full_mix[j].splices * loop_samples

---------------------------------------------------------------------------
(* Two independent jobs run concurrently in one working directory: an
   extend_track call, and a second extend_track call or a mix_playlist
   call, on different inputs and different output paths *)

PairInputs == {"clip.mp4", "CLIP.MOV", "song.mp3"}

PairStrings == {<<"1", "m">>, <<"5", "m">>}

PairTrackLists == {<<"b.mp3">>, <<"b.mp3", "b.mp3">>}

InitPair ==
    /\ IdleOther
    /\ IdleBuffers
    /\ IdleCrossfade
    /\ IdleMatchTempo
    /\ IdleBeats
    /\ InitLocals({1, 2})
    /\ audio = [j \in {1, 2} |-> NoBuffer]
    /\ output_path = [j \in {1, 2} |-> IF j = 1 THEN "out1" ELSE "out2"]
    /\ \E op2 \in {"extend", "mix"}, in1 \in PairInputs, in2 \in PairInputs,
          str1 \in PairStrings, str2 \in PairStrings, list2 \in PairTrackLists :
          /\ in1 # in2
          /\ op = [j \in {1, 2} |-> IF j = 1 THEN "extend" ELSE op2]
          /\ input_path = [j \in {1, 2} |->
                              IF j = 1 THEN in1
                              ELSE IF op2 = "extend" THEN in2 ELSE "none"]
          /\ target_duration_str = [j \in {1, 2} |->
                              IF j = 1 THEN str1
                              ELSE IF op2 = "extend" THEN str2 ELSE <<>>]
          /\ track_paths = [j \in {1, 2} |->
                              IF j = 2 /\ op2 = "mix" THEN list2 ELSE <<>>]

SpecPair == InitPair /\ [][NextJob]_vars

(* what extend_track(track, ..., str) leaves in its output file when it runs
   alone: the loop of lines 192-271 from k iterations on *)
RECURSIVE SoloLoop(_, _, _, _)
SoloLoop(track, target, buf, k) ==
    LET an == AnalysisOf(track)
        plan == ExtendPlan(an, target)
        r == ExtendSplice(buf.len, load_audio(track).len, Seconds(an.duration),
                          plan.mixout_point, plan.mixin_point,
                          SamplesOf(BarsDuration(an.bpm, DefaultTransitionBars)))
        next == [buf EXCEPT !.len = r.v, !.splices = @ + 1]
    IN  IF k >= plan.required_loops - 1 THEN buf
        ELSE IF DurationReached(r.v, target) THEN next
        ELSE SoloLoop(track, target, next, k + 1)

SoloOutput(track, str) ==
    LET target == parse_duration(str).v
        plan == ExtendPlan(AnalysisOf(track), target)
        looped == SoloLoop(track, target, load_audio(track), 0)
    IN  IF plan.required_loops <= 1 THEN Content("pcm", load_audio(track))
        ELSE Content(IF IsMedia(track) THEN "video" ELSE "wav",
                     [looped EXCEPT !.normalized = @ + 1])

(* C19: two independent jobs share no mutable state: no job writes or reads
   a file the other job wrote, and a job that returns leaves in its output
   file what it leaves there when it runs alone. *)
C19_JobsIndependent ==
    \A j \in DOMAIN pc : \A k \in DOMAIN pc \ {j} :
        /\ written[j] \cap written[k] = {}
        /\ loaded[j] \cap written[k] = {}
        /\ (op[j] = "extend" /\ pc[j] = "returned") =>
              fs[output_path[j]] = SoloOutput(input_path[j], target_duration_str[j])

---------------------------------------------------------------------------
(* The key compatibility check on its own: one call of are_keys_compatible *)

InitKeys ==
    /\ pc = "keys"
    /\ IdleBuffers
    /\ IdleCrossfade
    /\ IdleTempo
    /\ IdleBeats
    /\ IdleJob
    /\ IdleNorm
    /\ IdleAuth
    /\ camelot1 \in CamelotCodes
    /\ camelot2 \in CamelotCodes
    /\ keys_ret = <<FALSE, "">>

AreKeysCompatible ==
    /\ pc = "keys"
    /\ keys_ret' = are_keys_compatible(camelot1, camelot2)
    /\ pc' = "keys_done"
    /\ UNCHANGED <<camelot1, camelot2>>
    /\ UNCHANGED <<bufferVars, crossfadeVars, tempoVars, beatVars, jobVars,
                   normVars, authVars>>

NextKeys == AreKeysCompatible

SpecKeys == InitKeys /\ [][NextKeys]_vars

(* the numbers m and n are neighbours on the wheel, 12 and 1 included *)
WheelNeighbours(m, n) ==
    \/ n = IF m = 12 THEN 1 ELSE m + 1
    \/ m = IF n = 12 THEN 1 ELSE n + 1

(* C16: are_keys_compatible returns True exactly when neither code is
   Unknown and the codes are equal, or have the same number and different
   letters, or have the same letter and neighbouring numbers (12 and 1
   being neighbours); (8B,8A) and (8B,9B) are True, (8B,3A) and
   (Unknown,8A) are False; and the relation is symmetric. *)
C16_KeyCompatibility ==
    pc = "keys_done" =>
        /\ (camelot1 = Unknown \/ camelot2 = Unknown) => ~keys_ret[1]
        /\ \A m \in 1..12, n \in 1..12, k \in {"A", "B"}, l \in {"A", "B"} :
              (camelot1 = Camelot(m, k) /\ camelot2 = Camelot(n, l)) =>
                  keys_ret[1] = \/ (m = n /\ k = l)
                                \/ (m = n /\ k # l)
                                \/ (k = l /\ WheelNeighbours(m, n))
        /\ (camelot1 = <<"8", "B">> /\ camelot2 = <<"8", "A">>) => keys_ret[1]
        /\ (camelot1 = <<"8", "B">> /\ camelot2 = <<"9", "B">>) => keys_ret[1]
        /\ (camelot1 = <<"8", "B">> /\ camelot2 = <<"3", "A">>) => ~keys_ret[1]
        /\ (camelot1 = Unknown /\ camelot2 = <<"8", "A">>) => ~keys_ret[1]
        /\ keys_ret[1] = are_keys_compatible(camelot2, camelot1)[1]

C16_Witness ==
    /\ pc = "keys_done"
    /\ camelot1 = <<"1", "2", "B">>
    /\ camelot2 = <<"1", "B">>
    /\ keys_ret[1]

---------------------------------------------------------------------------
(* The normalizer on its own: one call of normalize_audio *)

InitNormalize ==
    /\ pc = "normalize"
    /\ IdleBuffers
    /\ IdleCrossfade
    /\ IdleBeats
    /\ IdleJob
    /\ IdleKeys
    /\ IdleAuth
    /\ audio \in NormInputs
    /\ ndim = 2
    /\ original_bpm = BaseBpm
    /\ target_bpm = BaseBpm
    /\ stretch_len = 0
    /\ tempo_ret = NoTempo
    /\ norm_ret = NoNorm

NormalizeAudio ==
    /\ pc = "normalize"
    /\ norm_ret' = normalize_audio(audio)
    /\ pc' = "normalize_done"
    /\ UNCHANGED <<bufferVars, crossfadeVars, tempoVars, beatVars, jobVars,
                   keyVars, authVars>>

NextNormalize == NormalizeAudio

SpecNormalize == InitNormalize /\ [][NextNormalize]_vars

(* the largest absolute sample of y is p *)
PeakIs(y, p) ==
    /\ \A i \in 1..Len(y), c \in 1..2 : RLeq(RAbs(y[i][c]), p)
    /\ \E i \in 1..Len(y), c \in 1..2 : RAbs(y[i][c]) = p

(* the sum of the squares of the samples of frames from..Len(y) *)
RECURSIVE Energy(_, _)
Energy(y, from) ==
    IF from > Len(y) THEN Rat(0, 1)
    ELSE RAdd(Energy(y, from + 1),
              RAdd(RMul(y[from][2], y[from][2]),
                   RMul(y[from][1], y[from][1])))

(* z is y times one positive factor *)
Amplified(y, z) ==
    /\ Len(z) = Len(y)
    /\ \E i \in 1..Len(y), c \in 1..2 :
          /\ y[i][c] # Rat(0, 1)
          /\ RLt(Rat(0, 1), RDiv(z[i][c], y[i][c]))
          /\ \A k \in 1..Len(y), d \in 1..2 :
                z[k][d] = RMul(y[k][d], RDiv(z[i][c], y[i][c]))

(* C18: normalize_audio returns a buffer whose peak is at most 1.0: with
   RMS > 0 it is the input under the gain that brings the RMS to target_db,
   unless that peak would exceed 1.0, and then it is the input rescaled to
   a peak of 0.99; with RMS 0 it is the input, unchanged; and the input
   buffer is as it was before the call. *)
C18_NormalizePeak ==
    pc = "normalize_done" =>
        LET out == norm_ret.audio
            energy == Energy(audio, 1)
            target == RMul(RMul(TargetLinear, TargetLinear),
                           Rat(2 * Len(audio), 1))
        IN  /\ \E p \in {RAbs(out[i][c]) : i \in 1..Len(out), c \in 1..2} :
                  PeakIs(out, p) /\ RLeq(p, Rat(1, 1))
            /\ norm_ret.input = audio
            /\ energy = Rat(0, 1) => (out = audio /\ norm_ret.same)
            /\ energy # Rat(0, 1) =>
                  /\ Amplified(audio, out)
                  /\ \/ Energy(out, 1) = target
                     \/ /\ PeakIs(out, Rat(99, 100))
                        /\ RLt(Energy(out, 1), target)

(* a buffer of crest factor 6 came back with a peak of 0.99 *)
C18_Witness ==
    /\ pc = "normalize_done"
    /\ Len(audio) = 18
    /\ PeakIs(audio, Rat(1, 2))
    /\ PeakIs(norm_ret.audio, Rat(99, 100))

---------------------------------------------------------------------------
(* The engine as its callers use it: a call of create_crossfade, or a job.
   No file exists where create_crossfade is called on its own. *)

InitEngine == InitCrossfade \/ InitJob

NextEngine ==
    \/ DOMAIN fs = {} /\ NextCrossfade
    \/ DOMAIN fs # {} /\ NextJob

SpecEngine == InitEngine /\ [][NextEngine]_vars

(* C25: create_crossfade leaves bufferA and bufferB as they were, for every
   style, returns a newly allocated buffer, and every output sample before
   fade_start is the sample of A at that index; in extend_track the source
   track buffer is the same after every step that follows its loading, the
   iterations of the loop included. *)
C25_NoSideEffect ==
    [][/\ (DOMAIN fs = {} /\ pc = "crossfade") =>
              /\ audio1' = audio1
              /\ audio2' = audio2
              /\ ~mixed'.err =>
                    /\ mixed'.fresh
                    /\ \A i \in 1..fade_window'.fade_start :
                          i <= Len(audio1) => mixed'.mixed[i] = audio1[i]
       /\ DOMAIN fs # {} =>
              \A j \in DOMAIN pc :
                  (op[j] = "extend" /\ audio[j] # NoBuffer) =>
                      /\ audio'[j] = audio[j]
                      /\ audio[j] = load_audio(input_path[j])]_vars

(* a bass swap over a window of two samples that starts inside A came back
   in a buffer of its own, A being as long as the result *)
C25_Witness ==
    /\ DOMAIN fs = {}
    /\ pc = "crossfade_done"
    /\ ~mixed.err
    /\ style = "bass_swap"
    /\ fade_window.fade_start >= 1
    /\ fade_window.actual_fade_samples >= 2
    /\ Len(mixed.mixed) = Len(audio1)
    /\ mixed.mixed # audio1
    /\ mixed.fresh

---------------------------------------------------------------------------
(* The API key check of the web service: requests pass through get_api_key
   one at a time, and the calendar day goes forward between them *)

ApiKeys == {Missing, "sk_demo_free_12345", "sk_demo_pro_99999", "sk_other"}

InitAuth ==
    /\ pc = "serving"
    /\ IdleBuffers
    /\ IdleCrossfade
    /\ IdleTempo
    /\ IdleBeats
    /\ IdleJob
    /\ IdleKeys
    /\ IdleNorm
    /\ IdleAuth

(* one request with the header value key *)
GetApiKey(key) ==
    /\ pc = "serving"
    /\ key \in DOMAIN VALID_API_KEYS => usage_tracker[key].count < MaxCount
    /\ LET ret == get_api_key(key, today, usage_tracker)
       IN  /\ api_key' = key
           /\ status' = ret.status
           /\ usage_tracker' = ret.tracker
           /\ admitted' = IF ret.returned
                          THEN [admitted EXCEPT ![key] = @ + 1]
                          ELSE admitted
    /\ UNCHANGED <<pc, today>>
    /\ UNCHANGED <<bufferVars, crossfadeVars, tempoVars, beatVars, jobVars,
                   keyVars, normVars>>

(* midnight *)
NewDay ==
    /\ pc = "serving"
    /\ today < MaxDay
    /\ today' = today + 1
    /\ admitted' = [k \in DOMAIN VALID_API_KEYS |-> 0]
    /\ UNCHANGED <<pc, api_key, usage_tracker, status>>
    /\ UNCHANGED <<bufferVars, crossfadeVars, tempoVars, beatVars, jobVars,
                   keyVars, normVars>>

NextAuth == (\E key \in ApiKeys : GetApiKey(key)) \/ NewDay

SpecAuth == InitAuth /\ [][NextAuth]_vars

(* the step is a request that was rejected *)
Rejected == today' = today /\ status' \in {"403", "401", "429"}

(* the step is the first request of key on a new day *)
FirstOfDay(key) ==
    /\ today' = today
    /\ api_key' = key
    /\ usage_tracker[key].date # today
    /\ <<api_key, usage_tracker, status, admitted>>
           # <<api_key', usage_tracker', status', admitted'>>

(* C28: for every API key and every calendar day, the requests admitted
   with that key on that day never exceed the key's daily_limit; a rejected
   request (403, 401, 429) leaves every usage counter unchanged; and the
   first request on a new day resets the key's counter to 0 before it is
   counted, so that it is admitted and the counter is 1. *)
C28_DailyLimit ==
    [][/\ \A key \in DOMAIN VALID_API_KEYS :
              admitted'[key] <= VALID_API_KEYS[key].daily_limit
       /\ Rejected =>
              \A key \in DOMAIN VALID_API_KEYS :
                  usage_tracker'[key].count = usage_tracker[key].count
       /\ \A key \in DOMAIN VALID_API_KEYS :
              FirstOfDay(key) =>
                  /\ status' = "200"
                  /\ usage_tracker'[key] = [date |-> today, count |-> 1]
                  /\ admitted'[key] = 1]_vars

(* on the second day the free key was admitted 50 times and then refused *)
C28_Witness ==
    /\ pc = "serving"
    /\ today = 2
    /\ api_key = "sk_demo_free_12345"
    /\ status = "429"
    /\ admitted["sk_demo_free_12345"] = 50
    /\ usage_tracker["sk_demo_free_12345"] = [date |-> 2, count |-> 50]

===========================================================================
